---- MODULE Spec2Model ----
(***************************************************************************)
(* Shrinking protocol of the Filter and Flatten value trees, of the       *)
(* Result unions of result.rs, and of the shrink search that drives them.  *)
(***************************************************************************)
EXTENDS Integers, Sequences, FiniteSets, TLC

VARIABLES filt, flat, run, un, rx

vars == <<filt, flat, run, un, rx>>

(***************************************************************************)
(* Bounds of the model.                                                    *)
(***************************************************************************)
\* Filter sources draw from 0 .. FilterRange - 1.
FilterRange == 5
\* The local reject budget of the FilterRunner (max_local_rejects).
MaxLocalRejects == 2

\* The meta strategy of the pair flat-map draws a from 0 .. MetaRange - 1.
MetaRange == 4
\* Both strategies of the flat-map whose Candidate is driven freely draw
\* from 0 .. FlatRange - 1.
FlatRange == 3
\* Every strategy of a chain of flat-maps draws from 0 .. ChainRange - 1.
ChainRange == 2
\* The nested flat-maps of the chain that run_one shrinks.
NestedFlatMaps == 5
\* Config::cases, the regeneration budget a new strategy choice grants.
Cases == 2
\* Config::max_flat_map_regens as the chain's runner configures it.
MaxFlatMapRegens == 3
\* Config::default().max_flat_map_regens, which the pair's runner keeps.
DefaultMaxFlatMapRegens == 1000000
\* The pair predicate fails when a > PairThreshold and b > a.
PairThreshold == 1
\* The pair strategy draws b from a - PairWidth .. a + PairWidth - 1.
PairWidth == 5
\* A shrinkable delegate of a Result strategy draws from 0 .. UnionRange - 1.
UnionRange == 3
\* The cases of a whole run draw from 0 .. CaseRange - 1.
CaseRange == 3
\* Config::max_global_rejects, the reject budget of a whole run.
MaxGlobalRejects == 2

(***************************************************************************)
(* The primitive integer Candidate: a binary search between the start of   *)
(* its range (lo) and the drawn value (hi).                                *)
(***************************************************************************)
\* A Candidate drawn as v from the range start .. end: it shrinks towards
\* zero when the range holds zero, and towards the bound nearest zero
\* otherwise.
BinarySearch_new_clamped(start, v, end) ==
    [lo |-> IF start <= 0 /\ end >= 0 THEN 0
            ELSE IF start < 0 THEN end ELSE start,
     curr |-> v, hi |-> v]

\* Integer division by two, rounding towards zero.
HalfTowardsZero(x) == IF x >= 0 THEN x \div 2 ELSE -((-x) \div 2)

BinarySearch_magnitude_greater(lhs, rhs) ==
    IF lhs = 0 THEN FALSE
    ELSE IF lhs < 0 THEN lhs < rhs ELSE lhs > rhs

BinarySearch_reposition(t) ==
    LET new_mid == t.lo + HalfTowardsZero(t.hi - t.lo)
    IN  IF new_mid = t.curr
        THEN [t |-> t, ret |-> FALSE]
        ELSE [t |-> [t EXCEPT !.curr = new_mid], ret |-> TRUE]

BinarySearch_simplify(t) ==
    IF ~BinarySearch_magnitude_greater(t.hi, t.lo)
    THEN [t |-> t, ret |-> FALSE]
    ELSE BinarySearch_reposition([t EXCEPT !.hi = t.curr])

\* complicate() of a Candidate that undoes nothing.
BinarySearch_complicate_refusing(t) == [t |-> t, ret |-> FALSE]

\* complicate() has nothing to undo while the Candidate still exposes the
\* most complex value of its search interval.
BinarySearch_complicate(t) ==
    IF ~BinarySearch_magnitude_greater(t.hi, t.lo) \/ t.curr = t.hi
    THEN [t |-> t, ret |-> FALSE]
    ELSE BinarySearch_reposition(
             [t EXCEPT !.lo = t.curr + (IF t.hi < 0 THEN -1 ELSE 1)])

(***************************************************************************)
(* Filter (filter.rs).  A predicate is the set of values it accepts.       *)
(***************************************************************************)
FilterValues == 0 .. (FilterRange - 1)

Predicates == SUBSET FilterValues

fun(pred, v) == v \in pred

\* TestRunner::reject_local: one unit of the local reject budget, or an error
\* once the budget is spent.
TestRunner_reject_local(rejects) ==
    IF rejects >= MaxLocalRejects
    THEN [ok |-> FALSE, rejects |-> rejects]
    ELSE [ok |-> TRUE, rejects |-> rejects + 1]

\* The outcomes of one source.new_value(runner): a fresh Candidate, or the
\* source's own error when the source strategy can fail.
Source_new_value(mayFail) ==
    {[ok |-> TRUE, val |-> BinarySearch_new_clamped(0, v, FilterRange - 1), err |-> "none"] : v \in FilterValues}
    \cup (IF mayFail
          THEN {[ok |-> FALSE, val |-> BinarySearch_new_clamped(0, 0, 0), err |-> "source"]}
          ELSE {})

\* Filter::new_value with the `return` misplaced: the value drawn is returned
\* after its rejection was recorded.
Filter_new_value_mut(pred, mayFail, rejects, draws) ==
    UNION {
        IF ~d.ok
        THEN {[ok |-> FALSE, err |-> d.err, source |-> d.val,
               rejects |-> rejects, draws |-> draws + 1]}
        ELSE IF ~fun(pred, d.val.curr)
        THEN LET r == TestRunner_reject_local(rejects)
             IN  {[ok |-> r.ok,
                   err |-> IF r.ok THEN "none" ELSE "too many local rejects",
                   source |-> d.val,
                   rejects |-> r.rejects, draws |-> draws + 1]}
        ELSE {[ok |-> TRUE, err |-> "none", source |-> d.val,
               rejects |-> rejects, draws |-> draws + 1]}
        : d \in Source_new_value(mayFail) }

\* Filter::new_value: every way the loop can end, from `rejects` rejections
\* and `draws` draws made so far.  An iteration returns the source's error,
\* returns the accepted draw, or records a rejection; what follows a
\* rejection does not depend on the value rejected.
RECURSIVE Filter_new_value(_, _, _, _)
Filter_new_value(pred, mayFail, rejects, draws) ==
    LET drawn    == Source_new_value(mayFail)
        rejected == {d \in drawn : d.ok /\ ~fun(pred, d.val.curr)}
        r        == TestRunner_reject_local(rejects)
    IN  {[ok |-> FALSE, err |-> d.err, source |-> d.val,
          rejects |-> rejects, draws |-> draws + 1] :
            d \in {e \in drawn : ~e.ok}}
        \cup
        {[ok |-> TRUE, err |-> "none", source |-> d.val,
          rejects |-> rejects, draws |-> draws + 1] :
            d \in {e \in drawn : e.ok /\ fun(pred, e.val.curr)}}
        \cup
        (IF rejected = {}
         THEN {}
         ELSE IF ~r.ok
         THEN {[ok |-> FALSE, err |-> "too many local rejects",
                source |-> d.val,
                rejects |-> r.rejects, draws |-> draws + 1] : d \in rejected}
         ELSE Filter_new_value(pred, mayFail, r.rejects, draws + 1))

\* ensure_acceptable that repairs by simplifying the source further.
RECURSIVE Filter_ensure_acceptable_simplifying(_, _)
Filter_ensure_acceptable_simplifying(pred, source) ==
    IF fun(pred, source.curr)
    THEN [source |-> source, panic |-> FALSE, calls |-> <<>>]
    ELSE LET c == BinarySearch_simplify(source)
         IN  IF ~c.ret
             THEN [source |-> c.t, panic |-> TRUE, calls |-> <<"simplify">>]
             ELSE LET e == Filter_ensure_acceptable_simplifying(pred, c.t)
                  IN  [e EXCEPT !.calls = <<"simplify">> \o @]

\* Filter::ensure_acceptable: complicate the source until the predicate
\* holds; panic when the source cannot complicate.  calls lists the calls
\* made on the source, in order.
RECURSIVE Filter_ensure_acceptable(_, _)
Filter_ensure_acceptable(pred, source) ==
    IF fun(pred, source.curr)
    THEN [source |-> source, panic |-> FALSE, calls |-> <<>>]
    ELSE LET c == BinarySearch_complicate(source)
         IN  IF ~c.ret
             THEN [source |-> c.t, panic |-> TRUE, calls |-> <<"complicate">>]
             ELSE LET e == Filter_ensure_acceptable(pred, c.t)
                  IN  [e EXCEPT !.calls = <<"complicate">> \o @]

Filter_current(f) == f.source.curr

\* Filter::simplify without the repair step.
Filter_simplify_mut(pred, source) ==
    LET s == BinarySearch_simplify(source)
    IN  [source |-> s.t, panic |-> FALSE, ret |-> s.ret,
         calls |-> <<"simplify">>]

Filter_simplify(pred, source) ==
    LET s == BinarySearch_simplify(source)
    IN  IF s.ret
        THEN LET e == Filter_ensure_acceptable(pred, s.t)
             IN  [source |-> e.source, panic |-> e.panic, ret |-> TRUE,
                  calls |-> <<"simplify">> \o e.calls]
        ELSE [source |-> s.t, panic |-> FALSE, ret |-> FALSE,
              calls |-> <<"simplify">>]

Filter_complicate(pred, source) ==
    LET s == BinarySearch_complicate(source)
    IN  IF s.ret
        THEN LET e == Filter_ensure_acceptable(pred, s.t)
             IN  [source |-> e.source, panic |-> e.panic, ret |-> TRUE,
                  calls |-> <<"complicate">> \o e.calls]
        ELSE [source |-> s.t, panic |-> FALSE, ret |-> FALSE,
              calls |-> <<"complicate">>]

(***************************************************************************)
(* Flatten (flatten.rs).  A flat-map is Flatten over a mapped source: the  *)
(* meta Candidate's value denotes the strategy of the inner Candidate.     *)
(* Mode "pair" is a -> (Just(a), a-w..a+w); mode "chain" nests flat-maps   *)
(* whose inner strategy is always the same range; mode "flat" is one such  *)
(* flat-map; mode "fallible" is one whose inner strategy may also fail to  *)
(* draw, as a Filter does when it runs out of local rejects.  An inner     *)
(* Candidate records the meta value (from) whose strategy it was drawn     *)
(* from.                                                                   *)
(* A state st holds the innermost meta Candidate (base), one record per    *)
(* nested FlattenValueTree (lv), the run's count of regenerations          *)
(* (regens) and the count of regeneration redraws made (redraws).          *)
(* Every operation yields the set of its outcomes, one per draw; its       *)
(* argument is bound once (st \in {arg}) before the body reads it.         *)
(***************************************************************************)
\* The range 0 .. MetaEnd(mode) - 1 of the innermost meta strategy.
MetaEnd(mode) ==
    IF mode = "pair" THEN MetaRange
    ELSE IF mode \in {"flat", "fallible"} THEN FlatRange ELSE ChainRange

\* <S::Value as Strategy>::new_value for the strategy the meta value v
\* denotes: every Candidate it can draw.
Strategy_new_value(mode, v) ==
    IF mode = "pair"
    THEN {[from |-> v, t |-> BinarySearch_new_clamped(v - PairWidth, b, v + PairWidth - 1)] :
            b \in (v - PairWidth) .. (v + PairWidth - 1)}
    ELSE {[from |-> v, t |-> BinarySearch_new_clamped(0, b, MetaEnd(mode) - 1)] :
            b \in 0 .. (MetaEnd(mode) - 1)}

\* Whether new_value of the inner strategy may return Err.
Strategy_new_value_fails(mode) == mode = "fallible"

\* The value an inner Candidate exposes: the pair (a, b), or the number.
Inner_current(mode, c) ==
    IF mode = "pair" THEN <<c.from, c.t.curr>> ELSE <<c.t.curr>>

\* TestRunner::flat_map_regen: one unit of the run's regeneration budget,
\* shared by every partial clone of the runner.
Config_max_flat_map_regens(mode) ==
    IF mode = "pair" THEN DefaultMaxFlatMapRegens ELSE MaxFlatMapRegens

TestRunner_flat_map_regen(mode, regens) ==
    IF regens < Config_max_flat_map_regens(mode)
    THEN [ok |-> TRUE, regens |-> regens + 1]
    ELSE [ok |-> FALSE, regens |-> regens]

\* FlattenValueTree::new over a drawn meta Candidate.
FlattenValueTree_new(current) ==
    [current |-> current, final_complication |-> <<>>,
     complicate_regen_remaining |-> 0]

\* A meta Candidate read as the simplest value of its range, whatever it
\* holds.
Meta_current_first(k, st) == 0

\* self.meta.current() of the FlattenValueTree at level k.
Meta_current(k, st) ==
    IF k = 1 THEN st.base.curr ELSE st.lv[k - 1].current.t.curr

FlattenValueTree_current(mode, k, st) == Inner_current(mode, st.lv[k].current)

RECURSIVE FlattenValueTree_simplify(_, _, _)
RECURSIVE FlattenValueTree_complicate(_, _, _)

\* self.meta.simplify(): the mapped source of level k.
Meta_simplify(mode, k, st) ==
    IF k = 1
    THEN LET s == BinarySearch_simplify(st.base)
         IN  {[st |-> [st EXCEPT !.base = s.t], ret |-> s.ret, how |-> "leaf"]}
    ELSE FlattenValueTree_simplify(mode, k - 1, st)

\* self.meta.complicate().
Meta_complicate(mode, k, st) ==
    IF k = 1
    THEN LET s == BinarySearch_complicate(st.base)
         IN  {[st |-> [st EXCEPT !.base = s.t], ret |-> s.ret, how |-> "leaf"]}
    ELSE FlattenValueTree_complicate(mode, k - 1, st)

\* simplify() that never tries the inner Candidate: every call goes to the
\* meta Candidate.
FlattenValueTree_simplify_meta_only(mode, k, arg) ==
    UNION {
          LET st1 == [st EXCEPT !.lv[k].complicate_regen_remaining = 0]
          IN  UNION {
                 IF ~m.ret
                 THEN {[st |-> m.st, ret |-> FALSE, how |-> "none"]}
                 ELSE {[st |-> [m.st EXCEPT
                            !.lv[k].final_complication = <<m.st.lv[k].current>>,
                            !.lv[k].current = v,
                            !.lv[k].complicate_regen_remaining = Cases],
                        ret |-> TRUE, how |-> "meta"] :
                       v \in Strategy_new_value(mode, Meta_current(k, m.st))}
                 : m \in Meta_simplify(mode, k, st1)}
      : st \in {arg}}

\* simplify() that redraws the inner Candidate whether or not the meta
\* Candidate could simplify.
FlattenValueTree_simplify_always(mode, k, arg) ==
    UNION {
          LET st0 == [st EXCEPT !.lv[k].complicate_regen_remaining = 0]
              c   == BinarySearch_simplify(st0.lv[k].current.t)
              st1 == [st0 EXCEPT !.lv[k].current.t = c.t]
          IN  IF c.ret
              THEN {[st |-> st1, ret |-> TRUE, how |-> "inner"]}
              ELSE UNION {
                     {[st |-> [m.st EXCEPT
                            !.lv[k].final_complication = <<m.st.lv[k].current>>,
                            !.lv[k].current = v,
                            !.lv[k].complicate_regen_remaining = Cases],
                       ret |-> TRUE, how |-> "meta"] :
                      v \in Strategy_new_value(mode, Meta_current(k, m.st))}
                     : m \in Meta_simplify(mode, k, st1)}
      : st \in {arg}}

\* simplify() with the mem::swap left out: the fresh draw is saved as the
\* final complication and the old inner Candidate stays current.
FlattenValueTree_simplify_no_swap(mode, k, arg) ==
    UNION {
          LET st0 == [st EXCEPT !.lv[k].complicate_regen_remaining = 0]
              c   == BinarySearch_simplify(st0.lv[k].current.t)
              st1 == [st0 EXCEPT !.lv[k].current.t = c.t]
          IN  IF c.ret
              THEN {[st |-> st1, ret |-> TRUE, how |-> "inner"]}
              ELSE UNION {
                     IF ~m.ret
                     THEN {[st |-> m.st, ret |-> FALSE, how |-> "none"]}
                     ELSE {[st |-> [m.st EXCEPT
                                !.lv[k].final_complication = <<v>>,
                                !.lv[k].complicate_regen_remaining = Cases],
                            ret |-> TRUE, how |-> "meta"] :
                           v \in Strategy_new_value(mode, Meta_current(k, m.st))}
                     : m \in Meta_simplify(mode, k, st1)}
      : st \in {arg}}

\* simplify() without its first statement: complicate_regen_remaining is
\* left as the call found it.
FlattenValueTree_simplify_no_reset(mode, k, arg) ==
    UNION {
          LET c   == BinarySearch_simplify(st.lv[k].current.t)
              st1 == [st EXCEPT !.lv[k].current.t = c.t]
          IN  IF c.ret
              THEN {[st |-> st1, ret |-> TRUE, how |-> "inner"]}
              ELSE UNION {
                     IF ~m.ret
                     THEN {[st |-> m.st, ret |-> FALSE, how |-> "none"]}
                     ELSE {[st |-> [m.st EXCEPT
                                !.lv[k].final_complication = <<m.st.lv[k].current>>,
                                !.lv[k].current = v,
                                !.lv[k].complicate_regen_remaining = Cases],
                            ret |-> TRUE, how |-> "meta"] :
                           v \in Strategy_new_value(mode, Meta_current(k, m.st))}
                     : m \in Meta_simplify(mode, k, st1)}
      : st \in {arg}}

FlattenValueTree_simplify(mode, k, arg) ==
    UNION {
          LET st0 == [st EXCEPT !.lv[k].complicate_regen_remaining = 0]
              c   == BinarySearch_simplify(st0.lv[k].current.t)
              st1 == [st0 EXCEPT !.lv[k].current.t = c.t]
          IN  IF c.ret
              THEN {[st |-> st1, ret |-> TRUE, how |-> "inner"]}
              ELSE UNION {
                     IF ~m.ret
                     THEN {[st |-> m.st, ret |-> FALSE, how |-> "none"]}
                     ELSE {[st |-> [m.st EXCEPT
                                !.lv[k].final_complication = <<m.st.lv[k].current>>,
                                !.lv[k].current = v,
                                !.lv[k].complicate_regen_remaining = Cases],
                            ret |-> TRUE, how |-> "meta"] :
                           v \in Strategy_new_value(mode, Meta_current(k, m.st))}
                          \cup (IF Strategy_new_value_fails(mode)
                                THEN {[st |-> m.st, ret |-> FALSE,
                                       how |-> "error"]}
                                ELSE {})
                     : m \in Meta_simplify(mode, k, st1)}
      : st \in {arg}}

\* The structural steps of complicate() without the last one: a saved
\* final complication is never restored.
Flatten_complicate_structural_no_restore(mode, k, arg) ==
    UNION {
          LET c   == BinarySearch_complicate(st.lv[k].current.t)
              st1 == [st EXCEPT !.lv[k].current.t = c.t]
          IN  IF c.ret
              THEN {[st |-> st1, ret |-> TRUE, how |-> "inner"]}
              ELSE UNION {
                     IF m.ret
                     THEN {[st |-> [m.st EXCEPT
                                !.lv[k].complicate_regen_remaining = Cases,
                                !.lv[k].current = v],
                            ret |-> TRUE, how |-> "meta"] :
                           v \in Strategy_new_value(mode, Meta_current(k, m.st))}
                     ELSE {[st |-> m.st, ret |-> FALSE, how |-> "none"]}
                     : m \in Meta_complicate(mode, k, st1)}
      : st \in {arg}}

\* Lines 137-160 of complicate(): the inner Candidate, then the meta
\* Candidate with a redraw, then the saved final complication.
Flatten_complicate_structural(mode, k, arg) ==
    UNION {
          LET c   == BinarySearch_complicate(st.lv[k].current.t)
              st1 == [st EXCEPT !.lv[k].current.t = c.t]
              res == IF c.ret
                     THEN {[st |-> st1, ret |-> TRUE, how |-> "inner"]}
                     ELSE UNION {
                            IF m.ret
                            THEN {[st |-> [m.st EXCEPT
                                       !.lv[k].complicate_regen_remaining = Cases,
                                       !.lv[k].current = v],
                                   ret |-> TRUE, how |-> "meta"] :
                                  v \in Strategy_new_value(mode, Meta_current(k, m.st))}
                                 \cup (IF Strategy_new_value_fails(mode)
                                       THEN {[st |-> m.st, ret |-> FALSE,
                                              how |-> "error"]}
                                       ELSE {})
                            ELSE {[st |-> m.st, ret |-> FALSE, how |-> "none"]}
                            : m \in Meta_complicate(mode, k, st1)}
          IN  {IF r.ret
               THEN r
               ELSE IF r.st.lv[k].final_complication # <<>>
               THEN [st |-> [r.st EXCEPT
                         !.lv[k].current = r.st.lv[k].final_complication[1],
                         !.lv[k].final_complication = <<>>],
                     ret |-> TRUE, how |-> "restore"]
               ELSE [st |-> r.st, ret |-> FALSE, how |-> r.how]
               : r \in res}
      : st \in {arg}}

\* complicate() that redraws whatever flat_map_regen() answers.
FlattenValueTree_complicate_unchecked(mode, k, arg) ==
    UNION {
          IF st.lv[k].complicate_regen_remaining > 0
          THEN LET g == TestRunner_flat_map_regen(mode, st.regens)
               IN  {[st |-> [st EXCEPT
                          !.regens = g.regens,
                          !.redraws = st.redraws + 1,
                          !.lv[k].complicate_regen_remaining =
                              st.lv[k].complicate_regen_remaining - 1,
                          !.lv[k].current = v],
                      ret |-> TRUE, how |-> "regen"] :
                     v \in Strategy_new_value(mode, Meta_current(k, st))}
          ELSE Flatten_complicate_structural(mode, k, st)
      : st \in {arg}}

\* complicate() whose regeneration branch neither asks the runner nor
\* counts down complicate_regen_remaining.
FlattenValueTree_complicate_forever(mode, k, arg) ==
    UNION {
          IF st.lv[k].complicate_regen_remaining > 0
          THEN {[st |-> [st EXCEPT !.lv[k].current = v],
                 ret |-> TRUE, how |-> "regen"] :
                v \in Strategy_new_value(mode, Meta_current(k, st))}
          ELSE Flatten_complicate_structural(mode, k, st)
      : st \in {arg}}

FlattenValueTree_complicate(mode, k, arg) ==
    UNION {
          IF st.lv[k].complicate_regen_remaining > 0
          THEN LET g == TestRunner_flat_map_regen(mode, st.regens)
                   counted == [st EXCEPT
                                 !.regens = g.regens,
                                 !.lv[k].complicate_regen_remaining =
                                     st.lv[k].complicate_regen_remaining - 1]
               IN  IF g.ok
                   THEN {[st |-> [counted EXCEPT
                                    !.redraws = st.redraws + 1,
                                    !.lv[k].current = v],
                          ret |-> TRUE, how |-> "regen"] :
                         v \in Strategy_new_value(mode, Meta_current(k, st))}
                        \cup (IF Strategy_new_value_fails(mode)
                              THEN Flatten_complicate_structural(mode, k, counted)
                              ELSE {})
                   ELSE Flatten_complicate_structural(mode, k,
                            [st EXCEPT !.regens = g.regens,
                                       !.lv[k].complicate_regen_remaining = 0])
          ELSE Flatten_complicate_structural(mode, k, st)
      : st \in {arg}}

\* Flatten::new_value for the whole composition: the base meta Candidate,
\* then one FlattenValueTree per flat-map, each drawn from the one below.
RECURSIVE Flatten_levels(_, _, _)
Flatten_levels(mode, k, v) ==
    IF k = 0
    THEN {<<>>}
    ELSE UNION {{<<FlattenValueTree_new(c)>> \o rest :
                   rest \in Flatten_levels(mode, k - 1, c.t.curr)} :
                c \in Strategy_new_value(mode, v)}

(***************************************************************************)
(* Result strategies (result.rs): a two-branch union of the mapped         *)
(* delegate strategies.  A delegate is "just" (one value, which cannot     *)
(* shrink) or "range" (an integer range).  A union Candidate holds the     *)
(* index of its branch (pick), the mapped Candidate of that branch         *)
(* (option) and, after a branch switch, the Candidate it discarded         *)
(* (fallback).                                                             *)
(***************************************************************************)
\* The sum of the two weights of float_to_weight.
WeightBase == 10

\* The draws of count_ok_of_1000.
Draws == 1000

\* WrapOk::apply and WrapErr::apply.
WrapOk_apply(t) == <<"Ok", t>>

WrapErr_apply(e) == <<"Err", e>>

\* Probabilities are given in tenths; float_to_weight turns one into two
\* positive weights whose sum is WeightBase, rounding to the nearest.
Probabilities == 1 .. 9

float_to_weight(f) ==
    LET rounded == (2 * f * WeightBase + 10) \div 20
        pos == IF rounded < 1 THEN 1
               ELSE IF rounded > WeightBase - 1 THEN WeightBase - 1
               ELSE rounded
    IN  <<pos, WeightBase - pos>>

\* maybe_err_weighted with the two branches in the other order.
maybe_err_weighted_swapped(probability_of_err, t, e) ==
    <<[weight |-> float_to_weight(probability_of_err)[1],
       fn |-> "WrapErr", source |-> e],
      [weight |-> float_to_weight(probability_of_err)[2],
       fn |-> "WrapOk", source |-> t]>>

\* maybe_ok_weighted with the two weights on the wrong branches.
maybe_ok_weighted_crossed(probability_of_ok, t, e) ==
    <<[weight |-> float_to_weight(probability_of_ok)[1],
       fn |-> "WrapErr", source |-> e],
      [weight |-> float_to_weight(probability_of_ok)[2],
       fn |-> "WrapOk", source |-> t]>>

\* The weighted branches of the TupleUnion, in order.
maybe_ok_weighted(probability_of_ok, t, e) ==
    <<[weight |-> float_to_weight(probability_of_ok)[2],
       fn |-> "WrapErr", source |-> e],
      [weight |-> float_to_weight(probability_of_ok)[1],
       fn |-> "WrapOk", source |-> t]>>

maybe_err_weighted(probability_of_err, t, e) ==
    <<[weight |-> float_to_weight(probability_of_err)[2],
       fn |-> "WrapOk", source |-> t],
      [weight |-> float_to_weight(probability_of_err)[1],
       fn |-> "WrapErr", source |-> e]>>

maybe_ok(t, e) == maybe_ok_weighted(5, t, e)

maybe_err(t, e) == maybe_err_weighted(5, t, e)

\* The Candidates a delegate strategy can draw.
Delegate_new_value(kind) ==
    IF kind = "just"
    THEN {BinarySearch_new_clamped(0, 0, 0)}
    ELSE {BinarySearch_new_clamped(0, v, UnionRange - 1) :
            v \in 0 .. (UnionRange - 1)}

\* statics::Map::new_value: the delegate's Candidate under the wrapper.
Map_new_value(branch) ==
    {[fn |-> branch.fn, t |-> c] : c \in Delegate_new_value(branch.source)}

Map_current(option) ==
    IF option.fn = "WrapOk"
    THEN WrapOk_apply(option.t.curr)
    ELSE WrapErr_apply(option.t.curr)

\* The sum of the weights of the first n branches.
RECURSIVE TupleUnion_weight(_, _)
TupleUnion_weight(branches, n) ==
    IF n = 0 THEN 0
    ELSE branches[n].weight + TupleUnion_weight(branches, n - 1)

\* The branch a uniform draw below the total weight falls on.
TupleUnion_pick(branches, roll) ==
    CHOOSE i \in 0 .. (Len(branches) - 1) :
       /\ TupleUnion_weight(branches, i) <= roll
       /\ roll < TupleUnion_weight(branches, i + 1)

\* TupleUnion::new_value: the branch of the draw, and a Candidate drawn
\* from it.
TupleUnion_new_value(branches, roll) ==
    {[pick |-> TupleUnion_pick(branches, roll), option |-> c,
      fallback |-> <<>>] :
       c \in Map_new_value(branches[TupleUnion_pick(branches, roll) + 1])}

TupleUnionValueTree_current(tree) == Map_current(tree.option)

\* simplify(): a Candidate of another branch switches to a fresh Candidate
\* of branch 0 and keeps the one it discards; a Candidate of branch 0
\* delegates, and a delegated step makes the branch switch a thing of the
\* past.
TupleUnionValueTree_simplify(branches, tree) ==
    IF tree.pick # 0
    THEN {[tree |-> [pick |-> 0, option |-> c,
                     fallback |-> <<[pick |-> tree.pick,
                                     option |-> tree.option]>>],
           ret |-> TRUE] : c \in Map_new_value(branches[1])}
    ELSE LET s == BinarySearch_simplify(tree.option.t)
         IN  IF s.ret
             THEN {[tree |-> [tree EXCEPT !.option.t = s.t,
                                          !.fallback = <<>>],
                    ret |-> TRUE]}
             ELSE {[tree |-> [tree EXCEPT !.option.t = s.t], ret |-> FALSE]}

\* complicate() that only delegates: a branch switch is never undone.
TupleUnionValueTree_complicate_delegating(tree) ==
    LET c == BinarySearch_complicate(tree.option.t)
    IN  [tree |-> [tree EXCEPT !.option.t = c.t], ret |-> c.ret]

\* complicate(): undo the branch switch when it is the most recent step,
\* delegate otherwise.
TupleUnionValueTree_complicate(tree) ==
    IF tree.fallback # <<>>
    THEN [tree |-> [pick |-> tree.fallback[1].pick,
                    option |-> tree.fallback[1].option,
                    fallback |-> <<>>],
          ret |-> TRUE]
    ELSE LET c == BinarySearch_complicate(tree.option.t)
         IN  [tree |-> [tree EXCEPT !.option.t = c.t], ret |-> c.ret]

(***************************************************************************)
(* Regex strategies (string.rs).  Characters are code points and byte      *)
(* strings are sequences of bytes.  An expression is a record of the       *)
(* regex_syntax Expr it stands for; a repetition without maximum has       *)
(* max = -1.                                                               *)
(***************************************************************************)
\* u32::MAX, with u32 narrowed to 16 bits: TLC's integers have 32 bits and
\* min * 2 has to stay within them.
U32_MAX == 65535

\* to_bytes: the UTF-8 encoding of a char.
to_bytes(ch) ==
    IF ch < 128 THEN <<ch>>
    ELSE IF ch < 2048 THEN <<192 + (ch \div 64), 128 + (ch % 64)>>
    ELSE <<224 + (ch \div 4096), 128 + ((ch \div 64) % 64), 128 + (ch % 64)>>

\* String::from_utf8(bytes) read as its chars.
RECURSIVE String_from_utf8(_)
String_from_utf8(bytes) ==
    IF bytes = <<>> THEN <<>>
    ELSE IF bytes[1] < 128
    THEN <<bytes[1]>> \o String_from_utf8(Tail(bytes))
    ELSE IF bytes[1] < 224
    THEN <<(bytes[1] - 192) * 64 + (bytes[2] - 128)>>
         \o String_from_utf8(SubSeq(bytes, 3, Len(bytes)))
    ELSE <<(bytes[1] - 224) * 4096 + (bytes[2] - 128) * 64 + (bytes[3] - 128)>>
         \o String_from_utf8(SubSeq(bytes, 4, Len(bytes)))

\* The chars of the model: a b s A B S, U+00DF (sharp s) and U+1E9E
\* (capital sharp s), with char::is_lowercase, char::is_uppercase,
\* char::to_uppercase and char::to_lowercase on them.
char_is_lowercase(ch) == ch \in {97, 98, 115, 223}

char_is_uppercase(ch) == ch \in {65, 66, 83, 7838}

char_to_uppercase(ch) ==
    IF ch = 223 THEN <<83, 83>>
    ELSE IF ch \in {97, 98, 115} THEN <<ch - 32>> ELSE <<ch>>

char_to_lowercase(ch) ==
    IF ch = 7838 THEN <<223>>
    ELSE IF ch \in {65, 66, 83} THEN <<ch + 32>> ELSE <<ch>>

RECURSIVE String_into_bytes(_)
String_into_bytes(chars) ==
    IF chars = <<>> THEN <<>>
    ELSE to_bytes(Head(chars)) \o String_into_bytes(Tail(chars))

flip_case_to_bytes(flip, ch) ==
    IF flip /\ char_is_uppercase(ch)
    THEN String_into_bytes(char_to_lowercase(ch))
    ELSE IF flip /\ char_is_lowercase(ch)
    THEN String_into_bytes(char_to_uppercase(ch))
    ELSE to_bytes(ch)

flip_ascii_case(flip, ch) ==
    IF flip /\ ch >= 97 /\ ch <= 122 THEN ch - 97 + 65
    ELSE IF flip /\ ch >= 65 /\ ch <= 90 THEN ch - 65 + 97
    ELSE ch

\* The expressions.
Expr(kind, chars, casei, ranges, subs, r, min, max) ==
    [kind |-> kind, chars |-> chars, casei |-> casei, ranges |-> ranges,
     subs |-> subs, r |-> r, min |-> min, max |-> max]

Literal(chars, casei) ==
    Expr("Literal", chars, casei, <<>>, <<>>, "none", 0, 0)

LiteralBytes(bytes, casei) ==
    Expr("LiteralBytes", bytes, casei, <<>>, <<>>, "none", 0, 0)

Class(ranges) == Expr("Class", <<>>, FALSE, ranges, <<>>, "none", 0, 0)

ClassBytes(ranges) ==
    Expr("ClassBytes", <<>>, FALSE, ranges, <<>>, "none", 0, 0)

Group(e) == Expr("Group", <<>>, FALSE, <<>>, <<e>>, "none", 0, 0)

Repeat(e, r, min, max) ==
    Expr("Repeat", <<>>, FALSE, <<>>, <<e>>, r, min, max)

Concat(subs) == Expr("Concat", <<>>, FALSE, <<>>, subs, "none", 0, 0)

Alternate(subs) == Expr("Alternate", <<>>, FALSE, <<>>, subs, "none", 0, 0)

Nullary(kind) == Expr(kind, <<>>, FALSE, <<>>, <<>>, "none", 0, 0)

\* The strategies bytes_regex_parsed builds, and the error it returns.
Strategy(kind, value, chars, ranges, subs, lo, hi) ==
    [kind |-> kind, value |-> value, chars |-> chars, ranges |-> ranges,
     subs |-> subs, lo |-> lo, hi |-> hi, err |-> "none"]

Just(value) == Strategy("Just", value, <<>>, <<>>, <<>>, 0, 0)

UnsupportedRegex(message) ==
    [kind |-> "Error", value |-> <<>>, chars |-> <<>>, ranges |-> <<>>,
     subs |-> <<>>, lo |-> 0, hi |-> 0, err |-> message]

\* collect() that lets an error through: the strategies are taken as they
\* are.
Collect_error_none(strats) == <<>>

\* The first error among the strategies of a sequence, if there is one:
\* collect::<Result<Vec<_>, _>>()?.
Collect_error(strats) ==
    IF \E i \in 1 .. Len(strats) : strats[i].kind = "Error"
    THEN <<strats[CHOOSE i \in 1 .. Len(strats) :
                    /\ strats[i].kind = "Error"
                    /\ \A j \in 1 .. (i - 1) : strats[j].kind # "Error"]>>
    ELSE <<>>

\* The fold of Concat: ((s1, s2), s3) ..., each pair mapped to lhs.extend(rhs).
RECURSIVE Concat_fold(_, _)
Concat_fold(accum, rest) ==
    IF rest = <<>> THEN accum
    ELSE Concat_fold(Strategy("Pair", <<>>, <<>>, <<>>, <<accum, Head(rest)>>, 0, 0),
                     Tail(rest))

\* The size range with the maximum of {min,max} taken as its excluded end.
Repeat_range_short(r, min, max) ==
    IF r = "ZeroOrOne" THEN [ok |-> TRUE, start |-> 0, end |-> 2]
    ELSE IF r = "ZeroOrMore" THEN [ok |-> TRUE, start |-> 0, end |-> 33]
    ELSE IF r = "OneOrMore" THEN [ok |-> TRUE, start |-> 1, end |-> 33]
    ELSE IF max # -1
    THEN [ok |-> max # U32_MAX, start |-> min, end |-> max]
    ELSE [ok |-> TRUE, start |-> min, end |-> min * 2]

\* The size range start .. end (end excluded) of a repetition, or the
\* error for a maximum of u32::MAX.
Repeat_range(r, min, max) ==
    IF r = "ZeroOrOne" THEN [ok |-> TRUE, start |-> 0, end |-> 2]
    ELSE IF r = "ZeroOrMore" THEN [ok |-> TRUE, start |-> 0, end |-> 33]
    ELSE IF r = "OneOrMore" THEN [ok |-> TRUE, start |-> 1, end |-> 33]
    ELSE IF max # -1
    THEN IF max = U32_MAX
         THEN [ok |-> FALSE, start |-> 0, end |-> 0]
         ELSE [ok |-> TRUE, start |-> min, end |-> max + 1]
    ELSE IF min < U32_MAX \div 2
    THEN [ok |-> TRUE, start |-> min, end |-> min * 2]
    ELSE [ok |-> TRUE, start |-> min, end |-> U32_MAX]

\* One byte range of a ClassBytes: (start..) when end is 255, (start..end)
\* otherwise; hi is the first byte left out.
ClassBytes_sub(range) ==
    IF range[2] = 255
    THEN Strategy("ByteRange", <<>>, <<>>, <<>>, <<>>, range[1], 256)
    ELSE Strategy("ByteRange", <<>>, <<>>, <<>>, <<>>, range[1], range[2])

\* A variant that ignores casei: every literal gets the case bits.
bytes_regex_parsed_casei(expr) ==
    IF expr.kind = "Literal"
    THEN Strategy("CaseBits", <<>>, expr.chars, <<>>, <<>>, 0, Len(expr.chars))
    ELSE Just(<<>>)

\* bytes_regex_parsed, on every expression but the Any* ones.
RECURSIVE bytes_regex_parsed(_)
bytes_regex_parsed(expr) ==
    IF expr.kind = "Empty" THEN Just(<<>>)
    ELSE IF expr.kind = "Literal" /\ ~expr.casei
    THEN Just(String_into_bytes(expr.chars))
    ELSE IF expr.kind = "Literal"
    THEN Strategy("CaseBits", <<>>, expr.chars, <<>>, <<>>, 0, Len(expr.chars))
    ELSE IF expr.kind = "LiteralBytes" /\ ~expr.casei
    THEN Just(expr.chars)
    ELSE IF expr.kind = "LiteralBytes"
    THEN Strategy("CaseBitsAscii", <<>>, expr.chars, <<>>, <<>>, 0, Len(expr.chars))
    ELSE IF expr.kind = "Class"
    THEN Strategy("CharRanges", <<>>, <<>>, expr.ranges, <<>>, 0, 0)
    ELSE IF expr.kind = "ClassBytes"
    THEN Strategy("ByteUnion", <<>>, <<>>, <<>>,
                  [i \in 1 .. Len(expr.ranges) |-> ClassBytes_sub(expr.ranges[i])],
                  0, 0)
    ELSE IF expr.kind = "Group"
    THEN bytes_regex_parsed(expr.subs[1])
    ELSE IF expr.kind = "Repeat"
    THEN LET range == Repeat_range(expr.r, expr.min, expr.max)
         IN  IF ~range.ok
             THEN UnsupportedRegex("Cannot have repetition max of u32::MAX")
             ELSE LET e == bytes_regex_parsed(expr.subs[1])
                  IN  IF e.kind = "Error" THEN e
                      ELSE Strategy("Vec", <<>>, <<>>, <<>>, <<e>>,
                                    range.start, range.end)
    ELSE IF expr.kind \in {"Concat", "Alternate"}
    THEN LET subs == [i \in 1 .. Len(expr.subs) |->
                        bytes_regex_parsed(expr.subs[i])]
         IN  IF Collect_error(subs) # <<>> THEN Collect_error(subs)[1]
             ELSE IF expr.kind = "Alternate"
             THEN Strategy("Union", <<>>, <<>>, <<>>, subs, 0, 0)
             ELSE IF subs = <<>> THEN Just(<<>>)
             ELSE Concat_fold(Head(subs), Tail(subs))
    ELSE IF expr.kind \in {"StartLine", "EndLine", "StartText", "EndText"}
    THEN UnsupportedRegex("line/text anchors not supported for string generation")
    ELSE UnsupportedRegex("word boundary tests not supported for string generation")

\* The state of a Candidate of one of these strategies: a number (the char,
\* the byte or the branch), a set of bits and the Candidates below it.
Tree(n, bits, subs) == [n |-> n, bits |-> bits, subs |-> subs]

Ranges_chars(ranges) ==
    UNION {ranges[i][1] .. ranges[i][2] : i \in 1 .. Len(ranges)}

\* new_value of a strategy: every Candidate it may draw.
RECURSIVE RegexGeneratorStrategy_new_value(_)
RegexGeneratorStrategy_new_value(strategy) ==
    IF strategy.kind = "Just" THEN {Tree(0, {}, <<>>)}
    ELSE IF strategy.kind \in {"CaseBits", "CaseBitsAscii"}
    THEN {Tree(0, bits, <<>>) : bits \in SUBSET (strategy.lo .. (strategy.hi - 1))}
    ELSE IF strategy.kind = "CharRanges"
    THEN {Tree(ch, {}, <<>>) : ch \in Ranges_chars(strategy.ranges)}
    ELSE IF strategy.kind = "ByteRange"
    THEN {Tree(b, {}, <<>>) : b \in strategy.lo .. (strategy.hi - 1)}
    ELSE IF strategy.kind \in {"Union", "ByteUnion"}
    THEN UNION {{Tree(i, {}, <<t>>) :
                   t \in RegexGeneratorStrategy_new_value(strategy.subs[i])} :
                i \in 1 .. Len(strategy.subs)}
    ELSE IF strategy.kind = "Pair"
    THEN {Tree(0, {}, <<lhs, rhs>>) :
            lhs \in RegexGeneratorStrategy_new_value(strategy.subs[1]),
            rhs \in RegexGeneratorStrategy_new_value(strategy.subs[2])}
    ELSE LET elements == RegexGeneratorStrategy_new_value(strategy.subs[1])
         IN  UNION {{Tree(0, {}, parts) : parts \in [1 .. n -> elements]} :
                    n \in strategy.lo .. (strategy.hi - 1)}

\* The bytes a case-insensitive literal maps its bits to.
RECURSIVE Literal_cases(_, _, _, _)
Literal_cases(ascii, bits, chars, i) ==
    IF i > Len(chars) THEN <<>>
    ELSE (IF ascii THEN <<flip_ascii_case((i - 1) \in bits, chars[i])>>
          ELSE flip_case_to_bytes((i - 1) \in bits, chars[i]))
         \o Literal_cases(ascii, bits, chars, i + 1)

\* The fold of the parts of a vector into one byte string.
RECURSIVE Flatten_bytes(_)
Flatten_bytes(parts) ==
    IF parts = <<>> THEN <<>>
    ELSE Head(parts) \o Flatten_bytes(Tail(parts))

\* current() of a Candidate, as bytes.
RECURSIVE RegexGeneratorValueTree_current(_, _)
RegexGeneratorValueTree_current(strategy, tree) ==
    IF strategy.kind = "Just" THEN strategy.value
    ELSE IF strategy.kind \in {"CaseBits", "CaseBitsAscii"}
    THEN Literal_cases(strategy.kind = "CaseBitsAscii", tree.bits,
                       strategy.chars, 1)
    ELSE IF strategy.kind = "CharRanges" THEN to_bytes(tree.n)
    ELSE IF strategy.kind = "ByteRange" THEN <<tree.n>>
    ELSE IF strategy.kind \in {"Union", "ByteUnion"}
    THEN RegexGeneratorValueTree_current(strategy.subs[tree.n], tree.subs[1])
    ELSE IF strategy.kind = "Pair"
    THEN RegexGeneratorValueTree_current(strategy.subs[1], tree.subs[1])
         \o RegexGeneratorValueTree_current(strategy.subs[2], tree.subs[2])
    ELSE Flatten_bytes([i \in 1 .. Len(tree.subs) |->
                          RegexGeneratorValueTree_current(strategy.subs[1],
                                                          tree.subs[i])])

Remove(seq, i) == SubSeq(seq, 1, i - 1) \o SubSeq(seq, i + 1, Len(seq))

\* simplify() of a Candidate: the Candidates it may become when it returns
\* true; it returns false when there is none.
RECURSIVE RegexGeneratorValueTree_simplify(_, _)
RegexGeneratorValueTree_simplify(strategy, tree) ==
    IF strategy.kind = "Just" THEN {}
    ELSE IF strategy.kind \in {"CaseBits", "CaseBitsAscii"}
    THEN {Tree(0, tree.bits \ {b}, <<>>) : b \in tree.bits}
    ELSE IF strategy.kind = "CharRanges"
    THEN {Tree(ch, {}, <<>>) :
            ch \in {c \in Ranges_chars(strategy.ranges) : c < tree.n}}
    ELSE IF strategy.kind = "ByteRange"
    THEN {Tree(b, {}, <<>>) : b \in strategy.lo .. (tree.n - 1)}
    ELSE IF strategy.kind \in {"Union", "ByteUnion"}
    THEN IF tree.n # 1
         THEN {Tree(1, {}, <<t>>) :
                 t \in RegexGeneratorStrategy_new_value(strategy.subs[1])}
         ELSE {Tree(1, {}, <<t>>) :
                 t \in RegexGeneratorValueTree_simplify(strategy.subs[1],
                                                        tree.subs[1])}
    ELSE IF strategy.kind = "Pair"
    THEN {Tree(0, {}, <<t, tree.subs[2]>>) :
            t \in RegexGeneratorValueTree_simplify(strategy.subs[1],
                                                   tree.subs[1])}
         \cup {Tree(0, {}, <<tree.subs[1], t>>) :
                 t \in RegexGeneratorValueTree_simplify(strategy.subs[2],
                                                        tree.subs[2])}
    ELSE {Tree(0, {}, Remove(tree.subs, i)) :
            i \in {j \in 1 .. Len(tree.subs) : Len(tree.subs) > strategy.lo}}
         \cup UNION {{Tree(0, {}, [tree.subs EXCEPT ![i] = t]) :
                        t \in RegexGeneratorValueTree_simplify(strategy.subs[1],
                                                               tree.subs[i])} :
                     i \in 1 .. Len(tree.subs)}

\* The chars a char stands for when the match ignores case.
simple_fold(ch) ==
    IF ch \in {97, 65} THEN {97, 65}
    ELSE IF ch \in {98, 66} THEN {98, 66}
    ELSE IF ch \in {115, 83} THEN {115, 83}
    ELSE IF ch \in {223, 7838} THEN {223, 7838}
    ELSE {ch}

RECURSIVE Flatten_ends(_)
Flatten_ends(ends) ==
    IF ends = <<>> THEN <<>> ELSE Head(ends) \o Flatten_ends(Tail(ends))

\* The ends of the matches of an expression in s that start after the
\* first i chars, in the order the regex prefers them (leftmost-first).
RECURSIVE Regex_ends(_, _, _)
RECURSIVE Concat_ends(_, _, _)
RECURSIVE Repeat_ends(_, _, _, _, _, _)
Regex_ends(expr, s, i) ==
    IF expr.kind = "Empty" THEN <<i>>
    ELSE IF expr.kind = "Literal"
    THEN IF /\ i + Len(expr.chars) <= Len(s)
            /\ \A k \in 1 .. Len(expr.chars) :
                  IF expr.casei THEN s[i + k] \in simple_fold(expr.chars[k])
                  ELSE s[i + k] = expr.chars[k]
         THEN <<i + Len(expr.chars)>>
         ELSE <<>>
    ELSE IF expr.kind = "Class"
    THEN IF i < Len(s) /\ s[i + 1] \in Ranges_chars(expr.ranges)
         THEN <<i + 1>>
         ELSE <<>>
    ELSE IF expr.kind = "Group" THEN Regex_ends(expr.subs[1], s, i)
    ELSE IF expr.kind = "Alternate"
    THEN Flatten_ends([k \in 1 .. Len(expr.subs) |->
                         Regex_ends(expr.subs[k], s, i)])
    ELSE IF expr.kind = "Concat" THEN Concat_ends(expr.subs, s, i)
    ELSE IF expr.kind = "Repeat"
    THEN IF expr.r = "ZeroOrOne"
         THEN Repeat_ends(expr.subs[1], 0, 1, s, i, 0)
         ELSE IF expr.r = "ZeroOrMore"
         THEN Repeat_ends(expr.subs[1], 0, -1, s, i, 0)
         ELSE IF expr.r = "OneOrMore"
         THEN Repeat_ends(expr.subs[1], 1, -1, s, i, 0)
         ELSE Repeat_ends(expr.subs[1], expr.min, expr.max, s, i, 0)
    ELSE <<>>

Concat_ends(subs, s, i) ==
    IF subs = <<>> THEN <<i>>
    ELSE LET first == Regex_ends(Head(subs), s, i)
         IN  Flatten_ends([k \in 1 .. Len(first) |->
                             Concat_ends(Tail(subs), s, first[k])])

\* A greedy repetition that has matched n times.
Repeat_ends(e, min, max, s, i, n) ==
    LET first == IF max = -1 \/ n < max THEN Regex_ends(e, s, i) ELSE <<>>
        stop == IF n >= min THEN <<i>> ELSE <<>>
    IN  IF first = <<>> THEN stop
        ELSE IF Len(first) = 1
        THEN IF first[1] > i
             THEN Repeat_ends(e, min, max, s, first[1], n + 1) \o stop
             ELSE stop
        ELSE Flatten_ends([k \in 1 .. Len(first) |->
                             IF first[k] > i
                             THEN Repeat_ends(e, min, max, s, first[k], n + 1)
                             ELSE <<>>])
             \o stop

\* The test of do_test: rx.find(s) is a match that starts at 0 and ends at
\* the end of s.
do_test_ok(expr, s) ==
    LET ends == Regex_ends(expr, s, 0)
    IN  ends # <<>> /\ Head(ends) = Len(s)

(***************************************************************************)
(* The states of the Candidates.  Beside the program's fields each record  *)
(* keeps the history the properties speak of: the operation called last    *)
(* and what it returned, the value first exposed (orig), the values        *)
(* exposed before the last call (seen), the value exposed just before it   *)
(* (prev), and the value exposed before the most recent simplify() call    *)
(* (anchor).                                                               *)
(***************************************************************************)
FilterIdle == [phase |-> "idle"]

FlatIdle == [phase |-> "idle"]

RunIdle == [phase |-> "idle"]

UnIdle == [phase |-> "idle"]

RxIdle == [phase |-> "idle"]

UnStart(variant, p, t, e) ==
    [phase |-> "strategy", variant |-> variant, p |-> p, t |-> t, e |-> e,
     roll |-> 0,
     tree |-> [pick |-> 0,
               option |-> [fn |-> "WrapOk", t |-> BinarySearch_new_clamped(0, 0, 0)],
               fallback |-> <<>>],
     first |-> <<>>, calls |-> 0, lastOp |-> "none", lastRet |-> FALSE]

FilterStart(pred, mayFail) ==
    [phase |-> "strategy", pred |-> pred, mayFail |-> mayFail,
     source |-> BinarySearch_new_clamped(0, 0, 0), orig |-> 0,
     err |-> "none", rejects |-> 0, draws |-> 0,
     lastOp |-> "none", lastRet |-> FALSE, seen |-> {}, prev |-> 0,
     anchor |-> 0, calls |-> <<>>]

FlatStart(mode, depth) ==
    [phase |-> "strategy", mode |-> mode, depth |-> depth,
     st |-> [base |-> BinarySearch_new_clamped(0, 0, 0), lv |-> <<>>,
             regens |-> 0, redraws |-> 0],
     orig |-> <<>>, origBase |-> 0, lastOp |-> "none", lastRet |-> FALSE,
     how |-> "none", exhausted |-> FALSE, seen |-> {}]

RunStart ==
    [phase |-> "run", pc |-> "execute", pass |-> FALSE,
     last_failure |-> <<>>, result |-> "none", reported |-> <<>>,
     failed |-> <<>>, first |-> <<>>, calls |-> 0]

(***************************************************************************)
(* Filter: a strategy is composed, new_value is called once, and the       *)
(* Candidate is then driven by any sequence of simplify() and complicate() *)
(* calls.                                                                  *)
(***************************************************************************)
InitFilter ==
    /\ filt \in {FilterStart(p, m) : p \in Predicates, m \in BOOLEAN}
    /\ flat = FlatIdle
    /\ run = RunIdle
    /\ un = UnIdle
    /\ rx = RxIdle

FilterNewValue ==
    /\ filt.phase = "strategy"
    /\ \E o \in Filter_new_value(filt.pred, filt.mayFail, 0, 0) :
         filt' = [filt EXCEPT !.phase = IF o.ok THEN "value" ELSE "error",
                              !.source = o.source,
                              !.orig = o.source.curr,
                              !.anchor = o.source.curr,
                              !.prev = o.source.curr,
                              !.err = o.err,
                              !.rejects = o.rejects,
                              !.draws = o.draws,
                              !.lastOp = "new_value",
                              !.lastRet = o.ok]
    /\ UNCHANGED <<flat, run, un, rx>>

FilterOp(op, r) ==
    [filt EXCEPT !.phase = IF r.panic THEN "panic" ELSE "value",
                 !.source = r.source,
                 !.lastOp = op,
                 !.lastRet = r.ret,
                 !.calls = r.calls,
                 !.seen = @ \cup {Filter_current(filt)},
                 !.prev = Filter_current(filt),
                 !.anchor = IF op = "simplify"
                            THEN Filter_current(filt) ELSE @]

FilterSimplify ==
    /\ filt.phase = "value"
    /\ \E r \in {Filter_simplify(filt.pred, filt.source)} :
         filt' = FilterOp("simplify", r)
    /\ UNCHANGED <<flat, run, un, rx>>

FilterComplicate ==
    /\ filt.phase = "value"
    /\ \E r \in {Filter_complicate(filt.pred, filt.source)} :
         filt' = FilterOp("complicate", r)
    /\ UNCHANGED <<flat, run, un, rx>>

(***************************************************************************)
(* Flatten: new_value is called once on the composed flat-map, and the     *)
(* outermost FlattenValueTree is then driven by any sequence of simplify() *)
(* and complicate() calls.                                                 *)
(***************************************************************************)
InitFlatten ==
    /\ flat = FlatStart("flat", 1)
    /\ filt = FilterIdle
    /\ run = RunIdle
    /\ un = UnIdle
    /\ rx = RxIdle

Top == flat.depth

FlatValue == FlattenValueTree_current(flat.mode, Top, flat.st)

\* Flatten::new_value on a fresh runner.
FlatDrawn(a, lv) ==
    [flat EXCEPT !.phase = "value",
                 !.st = [base |-> BinarySearch_new_clamped(0, a,
                                     MetaEnd(flat.mode) - 1),
                         lv |-> lv, regens |-> 0, redraws |-> 0],
                 !.orig = Inner_current(flat.mode, lv[Top].current),
                 !.origBase = a,
                 !.lastOp = "new_value",
                 !.lastRet = TRUE]

\* A call made by run_one: no history is kept beyond the last call;
\* exhausted tells whether the call was a complicate() that had
\* regenerations left and found the run's budget used up.
FlatCall(op, r) ==
    [flat EXCEPT !.st = r.st, !.lastOp = op, !.lastRet = r.ret, !.how = r.how,
                 !.exhausted =
                     /\ op = "complicate"
                     /\ flat.st.lv[Top].complicate_regen_remaining > 0
                     /\ ~TestRunner_flat_map_regen(flat.mode, flat.st.regens).ok]

\* A call made on a freely driven Candidate.
FlatOp(op, r) ==
    [FlatCall(op, r) EXCEPT !.seen = @ \cup {FlatValue}]

FlatNewValue ==
    /\ flat.phase = "strategy"
    /\ \E a \in 0 .. (MetaEnd(flat.mode) - 1) :
         \E lv \in Flatten_levels(flat.mode, Top, a) :
           flat' = FlatDrawn(a, lv)
    /\ UNCHANGED <<filt, run, un, rx>>

FlatSimplify ==
    /\ run.phase = "idle"
    /\ flat.phase = "value"
    /\ \E r \in FlattenValueTree_simplify(flat.mode, Top, flat.st) :
         flat' = FlatOp("simplify", r)
    /\ UNCHANGED <<filt, run, un, rx>>

FlatComplicate ==
    /\ run.phase = "idle"
    /\ flat.phase = "value"
    /\ \E r \in FlattenValueTree_complicate(flat.mode, Top, flat.st) :
         flat' = FlatOp("complicate", r)
    /\ UNCHANGED <<filt, run, un, rx>>

Init == InitFilter \/ InitFlatten

Next ==
    \/ FilterNewValue
    \/ FilterSimplify
    \/ FilterComplicate
    \/ FlatNewValue
    \/ FlatSimplify
    \/ FlatComplicate

Spec == Init /\ [][Next]_vars

(***************************************************************************)
(* Chains of simplify() alone: after new_value, simplify() is called for   *)
(* as long as it returns true.                                             *)
(***************************************************************************)
FilterSimplifyAgain ==
    /\ filt.phase = "value"
    /\ filt.lastOp = "new_value" \/ filt.lastRet
    /\ FilterSimplify

FlatSimplifyAgain ==
    /\ flat.phase = "value"
    /\ flat.lastOp = "new_value" \/ flat.lastRet
    /\ FlatSimplify

NextSimplify ==
    \/ FilterNewValue
    \/ FlatNewValue
    \/ FilterSimplifyAgain
    \/ FlatSimplifyAgain

\* The caller keeps calling for as long as a call is due.
SpecSimplify == Init /\ [][NextSimplify]_vars /\ WF_vars(NextSimplify)

\* A flat-map whose inner strategy may fail to draw, driven by any
\* sequence of simplify() and complicate() calls.
InitFallible ==
    /\ flat = FlatStart("fallible", 1)
    /\ filt = FilterIdle
    /\ run = RunIdle
    /\ un = UnIdle
    /\ rx = RxIdle

NextFallible == FlatNewValue \/ FlatSimplify \/ FlatComplicate

SpecFallible == InitFallible /\ [][NextFallible]_vars

(***************************************************************************)
(* Filter over a flat-map whose inner strategy may fail to draw: the       *)
(* source Candidate of the Filter is a FlattenValueTree, and filt.source   *)
(* holds its state.  A predicate is a set of the numbers the flat-map      *)
(* exposes.                                                                *)
(***************************************************************************)
\* self.source.current() of a Filter over the flat-map.
FilterFlatten_current(st) == FlattenValueTree_current("fallible", 1, st)[1]

\* Flatten::new_value: the meta draw, then FlattenValueTree::new, whose
\* inner draw may fail.
Flatten_new_value(mode) ==
    UNION {{[ok |-> TRUE,
             val |-> [base |-> BinarySearch_new_clamped(0, a, MetaEnd(mode) - 1),
                      lv |-> lv, regens |-> 0, redraws |-> 0]] :
              lv \in Flatten_levels(mode, 1, a)} :
           a \in 0 .. (MetaEnd(mode) - 1)}
    \cup (IF Strategy_new_value_fails(mode)
          THEN {[ok |-> FALSE,
                 val |-> [base |-> BinarySearch_new_clamped(0, 0, 0),
                          lv |-> <<>>, regens |-> 0, redraws |-> 0]]}
          ELSE {})

\* Filter::new_value over the flat-map, from `rejects` rejections made so
\* far.
RECURSIVE FilterFlatten_new_value(_, _)
FilterFlatten_new_value(pred, rejects) ==
    LET drawn    == Flatten_new_value("fallible")
        rejected == {d \in drawn : d.ok /\ ~fun(pred, FilterFlatten_current(d.val))}
        r        == TestRunner_reject_local(rejects)
    IN  {[ok |-> FALSE, err |-> "source", source |-> d.val] :
            d \in {e \in drawn : ~e.ok}}
        \cup
        {[ok |-> TRUE, err |-> "none", source |-> d.val] :
            d \in {e \in drawn : e.ok /\ fun(pred, FilterFlatten_current(e.val))}}
        \cup
        (IF rejected = {}
         THEN {}
         ELSE IF ~r.ok
         THEN {[ok |-> FALSE, err |-> "too many local rejects",
                source |-> d.val] : d \in rejected}
         ELSE FilterFlatten_new_value(pred, r.rejects))

\* ensure_acceptable that returns when the source cannot complicate.
RECURSIVE FilterFlatten_ensure_acceptable_giving_up(_, _)
FilterFlatten_ensure_acceptable_giving_up(pred, arg) ==
    UNION {
          IF fun(pred, FilterFlatten_current(st))
          THEN {[source |-> st, panic |-> FALSE, refused |-> <<>>]}
          ELSE UNION {
                 IF ~c.ret
                 THEN {[source |-> c.st, panic |-> FALSE, refused |-> <<st>>]}
                 ELSE FilterFlatten_ensure_acceptable_giving_up(pred, c.st)
                 : c \in FlattenValueTree_complicate("fallible", 1, st)}
      : st \in {arg}}

\* Filter::ensure_acceptable over the flat-map: every way the loop can end.
\* A panic records the source state whose complicate() returned false
\* (refused).
RECURSIVE FilterFlatten_ensure_acceptable(_, _)
FilterFlatten_ensure_acceptable(pred, arg) ==
    UNION {
          IF fun(pred, FilterFlatten_current(st))
          THEN {[source |-> st, panic |-> FALSE, refused |-> <<>>]}
          ELSE UNION {
                 IF ~c.ret
                 THEN {[source |-> c.st, panic |-> TRUE, refused |-> <<st>>]}
                 ELSE FilterFlatten_ensure_acceptable(pred, c.st)
                 : c \in FlattenValueTree_complicate("fallible", 1, st)}
      : st \in {arg}}

\* Filter::simplify and Filter::complicate over the flat-map; first is the
\* set of outcomes of the source's operation of the same name.
FilterFlatten_shrink(pred, first) ==
    UNION {
          IF s.ret
          THEN {[source |-> e.source, panic |-> e.panic, ret |-> TRUE,
                 refused |-> e.refused] :
                e \in FilterFlatten_ensure_acceptable(pred, s.st)}
          ELSE {[source |-> s.st, panic |-> FALSE, ret |-> FALSE,
                 refused |-> <<>>]}
      : s \in first}

InitFiltered ==
    /\ filt \in {[phase |-> "strategy", pred |-> p, over |-> "flatten",
                  source |-> [base |-> BinarySearch_new_clamped(0, 0, 0),
                              lv |-> <<>>, regens |-> 0, redraws |-> 0],
                  refused |-> <<>>, lastOp |-> "none", lastRet |-> FALSE] :
                 p \in SUBSET (0 .. (FlatRange - 1))}
    /\ flat = FlatIdle
    /\ run = RunIdle
    /\ un = UnIdle
    /\ rx = RxIdle

FilteredNewValue ==
    /\ filt.phase = "strategy"
    /\ \E o \in FilterFlatten_new_value(filt.pred, 0) :
         filt' = [filt EXCEPT !.phase = IF o.ok THEN "value" ELSE "error",
                              !.source = o.source,
                              !.lastOp = "new_value",
                              !.lastRet = o.ok]
    /\ UNCHANGED <<flat, run, un, rx>>

FilteredOp(op, r) ==
    [filt EXCEPT !.phase = IF r.panic THEN "panic" ELSE "value",
                 !.source = r.source,
                 !.refused = r.refused,
                 !.lastOp = op,
                 !.lastRet = r.ret]

FilteredSimplify ==
    /\ filt.phase = "value"
    /\ \E r \in FilterFlatten_shrink(filt.pred,
                 FlattenValueTree_simplify("fallible", 1, filt.source)) :
         filt' = FilteredOp("simplify", r)
    /\ UNCHANGED <<flat, run, un, rx>>

FilteredComplicate ==
    /\ filt.phase = "value"
    /\ \E r \in FilterFlatten_shrink(filt.pred,
                 FlattenValueTree_complicate("fallible", 1, filt.source)) :
         filt' = FilteredOp("complicate", r)
    /\ UNCHANGED <<flat, run, un, rx>>

NextFiltered == FilteredNewValue \/ FilteredSimplify \/ FilteredComplicate

SpecFiltered == InitFiltered /\ [][NextFiltered]_vars

(***************************************************************************)
(* TestRunner::run_one over a flat-map Candidate.  The test closure of     *)
(* mode "pair" fails when a > PairThreshold and b > a; the closure of mode *)
(* "chain" fails on its first call and passes on every later one.         *)
(***************************************************************************)
\* The test closure: its outcome on `value`, given the flag `pass`.
TestFn(mode, value, pass) ==
    IF mode = "pair"
    THEN IF value[1] <= PairThreshold \/ value[2] <= value[1]
         THEN "pass" ELSE "fail"
    ELSE IF pass THEN "pass" ELSE "fail"

\* One call of the closure inside run_one: the flag is set, a failure
\* becomes last_failure, and `failed` remembers the value of the last call
\* that returned Fail.
RunTest(r, mode, value) ==
    LET o == TestFn(mode, value, r.pass)
    IN  [r EXCEPT !.pass = TRUE,
                  !.last_failure = IF o = "fail" THEN value ELSE @,
                  !.failed = IF o = "fail" THEN value ELSE @,
                  !.pc = IF o = "fail" THEN "simplify" ELSE "complicate"]

\* run_one reporting the value that failed first instead of the last
\* failure.
RunReport_first(r, value) ==
    [r EXCEPT !.pc = "done", !.result = "fail", !.reported = r.first]

\* run_one returns Err(TestError::Fail(last_failure)).
RunReport(r, value) ==
    [r EXCEPT !.pc = "done", !.result = "fail", !.reported = r.last_failure]

\* A shrink step of run_one: the call returned `ret` and left the Candidate
\* exposing `value`; calls counts the simplify() and complicate() calls.
RunShrinkStep(r, mode, ret, value) ==
    LET c == [r EXCEPT !.calls = @ + 1]
    IN  IF ret THEN RunTest(c, mode, value) ELSE RunReport(c, value)

InitRun ==
    /\ flat \in {FlatStart("pair", 1), FlatStart("chain", NestedFlatMaps)}
    /\ run = RunStart
    /\ filt = FilterIdle
    /\ un = UnIdle
    /\ rx = RxIdle

RunExecute ==
    /\ run.phase = "run"
    /\ flat.phase = "value"
    /\ run.pc = "execute"
    /\ LET t == RunTest(run, flat.mode, FlatValue)
       IN  run' = IF t.pc = "simplify"
                  THEN [t EXCEPT !.first = FlatValue]
                  ELSE [t EXCEPT !.pc = "done", !.result = "ok"]
    /\ UNCHANGED <<filt, flat, un, rx>>

RunSimplify ==
    /\ run.phase = "run"
    /\ run.pc = "simplify"
    /\ \E r \in FlattenValueTree_simplify(flat.mode, Top, flat.st) :
         /\ flat' = FlatCall("simplify", r)
         /\ run' = RunShrinkStep(run, flat.mode, r.ret,
                        FlattenValueTree_current(flat.mode, Top, r.st))
    /\ UNCHANGED <<filt, un, rx>>

RunComplicate ==
    /\ run.phase = "run"
    /\ run.pc = "complicate"
    /\ \E r \in FlattenValueTree_complicate(flat.mode, Top, flat.st) :
         /\ flat' = FlatCall("complicate", r)
         /\ run' = RunShrinkStep(run, flat.mode, r.ret,
                        FlattenValueTree_current(flat.mode, Top, r.st))
    /\ UNCHANGED <<filt, un, rx>>

NextRun == FlatNewValue \/ RunExecute \/ RunSimplify \/ RunComplicate

SpecRun == InitRun /\ [][NextRun]_vars

(***************************************************************************)
(* Result strategies: maybe_ok or maybe_err is composed over two           *)
(* delegates, new_value is called once, and the Candidate is then driven   *)
(* by any sequence of simplify() and complicate() calls.  calls counts the *)
(* calls up to two.                                                        *)
(***************************************************************************)
Delegates == {"just", "range"}

UnBranches ==
    IF un.variant = "maybe_ok" THEN maybe_ok(un.t, un.e)
    ELSE IF un.variant = "maybe_err" THEN maybe_err(un.t, un.e)
    ELSE IF un.variant = "maybe_ok_weighted"
    THEN maybe_ok_weighted(un.p, un.t, un.e)
    ELSE maybe_err_weighted(un.p, un.t, un.e)

UnValue == TupleUnionValueTree_current(un.tree)

InitResult ==
    /\ un \in {UnStart(v, 5, t, e) :
                 v \in {"maybe_ok", "maybe_err"}, t \in Delegates, e \in Delegates}
             \cup {UnStart(v, p, t, e) :
                     v \in {"maybe_ok_weighted", "maybe_err_weighted"},
                     p \in Probabilities, t \in Delegates, e \in Delegates}
    /\ filt = FilterIdle
    /\ flat = FlatIdle
    /\ run = RunIdle
    /\ rx = RxIdle

ResultNewValue ==
    /\ un.phase = "strategy"
    /\ \E roll \in 0 .. (TupleUnion_weight(UnBranches, Len(UnBranches)) - 1) :
       \E tree \in TupleUnion_new_value(UnBranches, roll) :
         un' = [un EXCEPT !.phase = "value",
                          !.roll = roll,
                          !.tree = tree,
                          !.first = TupleUnionValueTree_current(tree),
                          !.lastOp = "new_value",
                          !.lastRet = TRUE]
    /\ UNCHANGED <<filt, flat, run, rx>>

UnOp(op, r) ==
    [un EXCEPT !.tree = r.tree,
               !.calls = IF @ < 2 THEN @ + 1 ELSE @,
               !.lastOp = op,
               !.lastRet = r.ret]

ResultSimplify ==
    /\ un.phase = "value"
    /\ \E r \in TupleUnionValueTree_simplify(UnBranches, un.tree) :
         un' = UnOp("simplify", r)
    /\ UNCHANGED <<filt, flat, run, rx>>

ResultComplicate ==
    /\ un.phase = "value"
    /\ \E r \in {TupleUnionValueTree_complicate(un.tree)} :
         un' = UnOp("complicate", r)
    /\ UNCHANGED <<filt, flat, run, rx>>

NextResult == ResultNewValue \/ ResultSimplify \/ ResultComplicate

SpecResult == InitResult /\ [][NextResult]_vars

(***************************************************************************)
(* A whole run: Generating -> Executing -> {Passed -> Generating |         *)
(* Failed -> Shrinking | Rejected -> Generating}; Shrinking -> Shrunk.     *)
(* The predicate is any function from the values of an integer range to    *)
(* the three case outcomes.                                                *)
(***************************************************************************)
CaseValues == 0 .. (CaseRange - 1)

CaseOutcomes == {"pass", "fail", "reject"}

CaseTests == [CaseValues -> CaseOutcomes]

CasesStart(test) ==
    [phase |-> "cases", pc |-> "Generating", test |-> test,
     case |-> BinarySearch_new_clamped(0, 0, 0), outcome |-> "none",
     passes |-> 0, global_rejects |-> 0, op |-> "none",
     last_failure |-> 0, result |-> "none"]

\* A predicate that treats a Reject as a failure.
Outcome_state_reject_fails(outcome) ==
    IF outcome = "pass" THEN "Passed" ELSE "Failed"

\* The state a case outcome leads to.
Outcome_state(outcome) ==
    IF outcome = "pass" THEN "Passed"
    ELSE IF outcome = "fail" THEN "Failed" ELSE "Rejected"

InitCases ==
    /\ run \in {CasesStart(t) : t \in CaseTests}
    /\ filt = FilterIdle
    /\ flat = FlatIdle
    /\ un = UnIdle
    /\ rx = RxIdle

\* Generating: stop after `cases` passes, abort when the global reject
\* budget is exceeded, draw a Candidate otherwise.
CaseGenerate ==
    /\ run.phase = "cases"
    /\ run.pc = "Generating"
    /\ IF run.passes >= Cases
       THEN run' = [run EXCEPT !.pc = "Done", !.result = "pass"]
       ELSE IF run.global_rejects > MaxGlobalRejects
       THEN run' = [run EXCEPT !.pc = "Aborted",
                               !.result = "too many global rejects"]
       ELSE \E v \in CaseValues :
              run' = [run EXCEPT
                         !.pc = "Executing",
                         !.case = BinarySearch_new_clamped(0, v, CaseRange - 1)]
    /\ UNCHANGED <<filt, flat, un, rx>>

\* Executing: the predicate runs on current().
CaseExecute ==
    /\ run.phase = "cases"
    /\ run.pc = "Executing"
    /\ run' = [run EXCEPT !.outcome = run.test[run.case.curr],
                          !.pc = Outcome_state(run.test[run.case.curr])]
    /\ UNCHANGED <<filt, flat, un, rx>>

CasePassed ==
    /\ run.phase = "cases"
    /\ run.pc = "Passed"
    /\ run' = [run EXCEPT !.pc = "Generating", !.passes = @ + 1]
    /\ UNCHANGED <<filt, flat, un, rx>>

\* A Reject discards the case: it counts against the global reject budget
\* and not as a pass.
CaseRejected ==
    /\ run.phase = "cases"
    /\ run.pc = "Rejected"
    /\ run' = [run EXCEPT !.pc = "Generating", !.global_rejects = @ + 1]
    /\ UNCHANGED <<filt, flat, un, rx>>

CaseFailed ==
    /\ run.phase = "cases"
    /\ run.pc = "Failed"
    /\ run' = [run EXCEPT !.pc = "Shrinking",
                          !.op = "simplify",
                          !.last_failure = run.case.curr]
    /\ UNCHANGED <<filt, flat, un, rx>>

\* One turn of the shrink loop: simplify() after a failure, complicate()
\* after any other outcome; the search ends when the call returns false.
CaseShrink ==
    /\ run.phase = "cases"
    /\ run.pc = "Shrinking"
    /\ \E s \in {IF run.op = "simplify"
                  THEN BinarySearch_simplify(run.case)
                  ELSE BinarySearch_complicate(run.case)} :
         run' = IF ~s.ret
                THEN [run EXCEPT !.pc = "Shrunk", !.case = s.t,
                                 !.result = "fail"]
                ELSE [run EXCEPT
                         !.case = s.t,
                         !.outcome = run.test[s.t.curr],
                         !.op = IF run.test[s.t.curr] = "fail"
                                THEN "simplify" ELSE "complicate",
                         !.last_failure = IF run.test[s.t.curr] = "fail"
                                          THEN s.t.curr ELSE @]
    /\ UNCHANGED <<filt, flat, un, rx>>

NextCases ==
    \/ CaseGenerate
    \/ CaseExecute
    \/ CasePassed
    \/ CaseRejected
    \/ CaseFailed
    \/ CaseShrink

SpecCases == InitCases /\ [][NextCases]_vars

(***************************************************************************)
(* do_test of string.rs: Candidates of string_regex(pattern) are drawn and *)
(* simplified until simplify() returns false, every value they expose is   *)
(* matched against the pattern and collected.                              *)
(***************************************************************************)
\* The patterns and the expressions rs::Expr::parse gives for them.
Patterns ==
    <<[text |-> "ab", expr |-> Literal(<<97, 98>>, FALSE)],
      [text |-> "(?i:aB)", expr |-> Group(Literal(<<97, 66>>, TRUE))],
      [text |-> "ab|ba|bb",
       expr |-> Alternate(<<Literal(<<97, 98>>, FALSE),
                            Literal(<<98, 97>>, FALSE),
                            Literal(<<98, 98>>, FALSE)>>)],
      [text |-> "a{0,3}",
       expr |-> Repeat(Literal(<<97>>, FALSE), "Range", 0, 3)],
      [text |-> "a?", expr |-> Repeat(Literal(<<97>>, FALSE), "ZeroOrOne", 0, 0)],
      [text |-> "a*", expr |-> Repeat(Literal(<<97>>, FALSE), "ZeroOrMore", 0, 0)],
      [text |-> "a+", expr |-> Repeat(Literal(<<97>>, FALSE), "OneOrMore", 0, 0)],
      [text |-> "a{2,}",
       expr |-> Repeat(Literal(<<97>>, FALSE), "Range", 2, -1)],
      [text |-> "a{0,8}",
       expr |-> Repeat(Literal(<<97>>, FALSE), "Range", 0, 8)],
      [text |-> "a{4,}",
       expr |-> Repeat(Literal(<<97>>, FALSE), "Range", 4, -1)],
      [text |-> "(ab|ba)(s|bb)",
       expr |-> Concat(<<Group(Alternate(<<Literal(<<97, 98>>, FALSE),
                                           Literal(<<98, 97>>, FALSE)>>)),
                         Group(Alternate(<<Literal(<<115>>, FALSE),
                                           Literal(<<98, 98>>, FALSE)>>))>>)],
      [text |-> "[ab]", expr |-> Class(<<<<97, 98>>>>)],
      [text |-> "(?i:\\xDF)", expr |-> Group(Literal(<<223>>, TRUE))],
      [text |-> "a|ab",
       expr |-> Alternate(<<Literal(<<97>>, FALSE),
                            Literal(<<97, 98>>, FALSE)>>)],
      [text |-> "^a",
       expr |-> Concat(<<Nullary("StartText"), Literal(<<97>>, FALSE)>>)],
      [text |-> "(a\\b|b)*",
       expr |-> Repeat(Group(Alternate(<<
                          Concat(<<Literal(<<97>>, FALSE),
                                   Nullary("WordBoundary")>>),
                          Literal(<<98>>, FALSE)>>)),
                       "ZeroOrMore", 0, 0)]>>

\* Texts that rs::Expr::parse refuses.
Malformed == {"a(", "[a", "a{2,1}"}

\* Error::RegexSyntax, made from the parser's error by `?`.
RegexSyntax ==
    [kind |-> "Error", value |-> <<>>, chars |-> <<>>, ranges |-> <<>>,
     subs |-> <<>>, lo |-> 0, hi |-> 0, err |-> "RegexSyntax"]

Expr_parse(regex) ==
    Patterns[CHOOSE i \in 1 .. Len(Patterns) : Patterns[i].text = regex].expr

string_regex_parsed(expr) == bytes_regex_parsed(expr)

string_regex(regex) ==
    IF regex \in Malformed
    THEN RegexSyntax
    ELSE string_regex_parsed(Expr_parse(regex))

bytes_regex(regex) ==
    IF regex \in Malformed
    THEN RegexSyntax
    ELSE bytes_regex_parsed(Expr_parse(regex))

\* The String a Candidate of string_regex exposes, as its chars.
RegexGeneratorValueTree_string(strategy, tree) ==
    String_from_utf8(RegexGeneratorValueTree_current(strategy, tree))

RegexStart(pattern) ==
    [phase |-> "regex", pattern |-> pattern, pc |-> "start",
     tree |-> Tree(0, {}, <<>>), s |-> <<>>, generated |-> {},
     op |-> "none", ret |-> TRUE]

InitRegex ==
    /\ \E i \in 1 .. Len(Patterns) : rx = RegexStart(Patterns[i].text)
    /\ filt = FilterIdle
    /\ flat = FlatIdle
    /\ run = RunIdle
    /\ un = UnIdle

\* The loop body of do_test on the value the Candidate exposes.
RegexExposed(op, tree, s) ==
    LET ok == do_test_ok(Expr_parse(rx.pattern), s)
    IN  [rx EXCEPT !.tree = tree, !.s = s,
                   !.pc = IF ok THEN "value" ELSE "panic",
                   !.generated = IF ok THEN @ \cup {s} ELSE @,
                   !.op = op, !.ret = TRUE]

RegexNewValue ==
    /\ rx.phase = "regex"
    /\ rx.pc = "start"
    /\ string_regex(rx.pattern).kind # "Error"
    /\ \E tree \in RegexGeneratorStrategy_new_value(string_regex(rx.pattern)) :
          \E s \in {RegexGeneratorValueTree_string(string_regex(rx.pattern),
                                                   tree)} :
             rx' = RegexExposed("new_value", tree, s)
    /\ UNCHANGED <<filt, flat, run, un>>

RegexSimplify ==
    /\ rx.phase = "regex"
    /\ rx.pc = "value"
    /\ LET next == RegexGeneratorValueTree_simplify(string_regex(rx.pattern),
                                                    rx.tree)
       IN  IF next = {}
           THEN rx' = [rx EXCEPT !.pc = "start", !.op = "simplify",
                                 !.ret = FALSE]
           ELSE \E tree \in next :
                   \E s \in {RegexGeneratorValueTree_string(
                                 string_regex(rx.pattern), tree)} :
                      rx' = RegexExposed("simplify", tree, s)
    /\ UNCHANGED <<filt, flat, run, un>>

NextRegex == RegexNewValue \/ RegexSimplify

SpecRegex == InitRegex /\ [][NextRegex]_vars

(***************************************************************************)
(* Building a strategy: bytes_regex_parsed on an expression, string_regex  *)
(* and bytes_regex on a text.                                              *)
(***************************************************************************)
\* The nesting depth of the expressions handed to bytes_regex_parsed.
MaxDepth == 2

\* The expressions up to a nesting depth: the empty expression, a literal,
\* every anchor and word-boundary test, and these under Group, Repeat,
\* Concat and Alternate.
RECURSIVE Exprs(_)
Exprs(d) ==
    IF d = 0
    THEN {Literal(<<97>>, FALSE)}
         \cup {Nullary(k) : k \in {"Empty", "StartLine", "EndLine",
                                   "StartText", "EndText", "WordBoundary",
                                   "NotWordBoundary", "WordBoundaryAscii",
                                   "NotWordBoundaryAscii"}}
    ELSE LET sub == Exprs(d - 1)
             lit == Literal(<<98>>, FALSE)
         IN  sub
             \cup {Group(e) : e \in sub}
             \cup {Repeat(e, "ZeroOrOne", 0, 0) : e \in sub}
             \cup {Repeat(e, "Range", 1, 2) : e \in sub}
             \cup {Repeat(e, "Range", 1, U32_MAX) : e \in sub}
             \cup {Repeat(e, "Range", U32_MAX, -1) : e \in sub}
             \cup {Concat(<<e, lit>>) : e \in sub}
             \cup {Concat(<<lit, e>>) : e \in sub}
             \cup {Alternate(<<e, lit>>) : e \in sub}
             \cup {Alternate(<<lit, e>>) : e \in sub}

InitCompile ==
    /\ rx \in {[phase |-> "compile", pc |-> "start", api |-> "bytes_regex_parsed",
                 expr |-> e, text |-> "", result |-> Just(<<>>)] :
                e \in Exprs(MaxDepth)}
           \cup {[phase |-> "compile", pc |-> "start", api |-> a,
                   expr |-> Nullary("Empty"), text |-> t,
                   result |-> Just(<<>>)] :
                  a \in {"string_regex", "bytes_regex"},
                  t \in Malformed \cup {Patterns[i].text : i \in 1 .. Len(Patterns)}}
    /\ filt = FilterIdle
    /\ flat = FlatIdle
    /\ run = RunIdle
    /\ un = UnIdle

CompileParsed ==
    /\ rx.phase = "compile"
    /\ rx.pc = "start"
    /\ rx.api = "bytes_regex_parsed"
    /\ rx' = [rx EXCEPT !.pc = "done", !.result = bytes_regex_parsed(rx.expr)]
    /\ UNCHANGED <<filt, flat, run, un>>

CompileText ==
    /\ rx.phase = "compile"
    /\ rx.pc = "start"
    /\ rx.api \in {"string_regex", "bytes_regex"}
    /\ rx' = [rx EXCEPT !.pc = "done",
                        !.result = IF rx.api = "string_regex"
                                   THEN string_regex(rx.text)
                                   ELSE bytes_regex(rx.text)]
    /\ UNCHANGED <<filt, flat, run, un>>

NextCompile == CompileParsed \/ CompileText

SpecCompile == InitCompile /\ [][NextCompile]_vars

(***************************************************************************)
(* Byte classes: bytes_regex_parsed on a ClassBytes of one or two ranges   *)
(* with their ends among a few bytes, then new_value and simplify() on its *)
(* strategy.  A draw from an empty range yields no byte.                   *)
(***************************************************************************)
InitBytes ==
    /\ \E r1, r2 \in {r \in {0, 1, 2, 254, 255} \X {0, 1, 2, 254, 255} :
                          r[1] <= r[2]} :
          \E ranges \in {<<r1>>} \cup (IF r1[2] < r2[1] THEN {<<r1, r2>>} ELSE {}) :
             rx = [phase |-> "bytes", pc |-> "start", expr |-> ClassBytes(ranges),
                   tree |-> Tree(0, {}, <<>>), bytes |-> <<>>]
    /\ filt = FilterIdle
    /\ flat = FlatIdle
    /\ run = RunIdle
    /\ un = UnIdle

BytesNewValue ==
    /\ rx.phase = "bytes"
    /\ rx.pc = "start"
    /\ LET strategy == bytes_regex_parsed(rx.expr)
       IN  \/ \E tree \in RegexGeneratorStrategy_new_value(strategy) :
                rx' = [rx EXCEPT !.pc = "value", !.tree = tree,
                                 !.bytes = RegexGeneratorValueTree_current(
                                               strategy, tree)]
           \/ /\ \E i \in 1 .. Len(strategy.subs) :
                    strategy.subs[i].lo >= strategy.subs[i].hi
              /\ rx' = [rx EXCEPT !.pc = "empty"]
    /\ UNCHANGED <<filt, flat, run, un>>

BytesSimplify ==
    /\ rx.phase = "bytes"
    /\ rx.pc = "value"
    /\ LET strategy == bytes_regex_parsed(rx.expr)
           next == RegexGeneratorValueTree_simplify(strategy, rx.tree)
       IN  IF next = {}
           THEN rx' = [rx EXCEPT !.pc = "start"]
           ELSE \E tree \in next :
                   rx' = [rx EXCEPT !.tree = tree,
                                    !.bytes = RegexGeneratorValueTree_current(
                                                  strategy, tree)]
    /\ UNCHANGED <<filt, flat, run, un>>

NextBytes == BytesNewValue \/ BytesSimplify

SpecBytes == InitBytes /\ [][NextBytes]_vars

----------------------------------------------------------------------------
\* C1: every value a Filter Candidate exposes as current(), right after
\* new_value and after any simplify()/complicate() calls that returned
\* normally, satisfies the filter's predicate.
C1_FilterCurrentAcceptable ==
    filt.phase = "value" => fun(filt.pred, Filter_current(filt))

\* A simplify() that returned true on a Candidate whose predicate rejects
\* some of the values below the drawn one.
C1_Witness ==
    /\ filt.phase = "value"
    /\ filt.lastOp = "simplify"
    /\ filt.lastRet
    /\ Filter_current(filt) > 0
    /\ \E v \in FilterValues : v < filt.orig /\ ~fun(filt.pred, v)

\* C2: the regeneration redraws made by all the FlattenValueTrees of a run
\* together, nested ones included, never exceed max_flat_map_regens.
C2_RegensGloballyBounded ==
    flat.phase = "value" =>
        flat.st.redraws <= Config_max_flat_map_regens(flat.mode)

\* The whole budget was spent by a chain of nested flat-maps, and two of its
\* FlattenValueTrees still hold a regeneration budget of their own.
C2_Witness ==
    /\ run.phase = "run"
    /\ flat.phase = "value"
    /\ flat.mode = "chain"
    /\ flat.st.redraws = MaxFlatMapRegens
    /\ \A k \in 1 .. 2 : flat.st.lv[k].complicate_regen_remaining > 0

\* Every complicate() that returns true spends one unit of the run's
\* regeneration budget, or narrows the one binary search the single
\* simplify() narrowed, or restores one of the fallbacks that simplify()
\* saved.
ShrinkCallBound == MaxFlatMapRegens + ChainRange + NestedFlatMaps + 2

\* C3: run_one over the chain of nested flat-maps, whose test fails on the
\* first value and passes on every later one, returns whatever the draws
\* are: it makes at most ShrinkCallBound simplify()/complicate() calls and,
\* until it has returned, its next step can always be taken.
C3_ShrinkTerminates ==
    (run.phase = "run" /\ flat.mode = "chain") =>
        /\ run.calls <= ShrinkCallBound
        /\ run.pc = "done" \/ ENABLED NextRun

\* run_one returned the failure of the chain after the regeneration budget
\* of the run was used up.
C3_Witness ==
    /\ run.phase = "run"
    /\ flat.mode = "chain"
    /\ flat.depth = NestedFlatMaps
    /\ run.pc = "done"
    /\ run.result = "fail"
    /\ flat.st.regens = MaxFlatMapRegens

\* The first simplify() on a fresh Candidate of a Result strategy over two
\* delegates that cannot shrink.
FirstSimplifyOfUnshrinkable ==
    /\ un.phase = "value"
    /\ un.t = "just"
    /\ un.e = "just"
    /\ un.calls = 1
    /\ un.lastOp = "simplify"

\* C4: over delegates that cannot shrink, the first simplify() of a
\* maybe_err Candidate returns true from Err and false from Ok and leaves
\* Ok either way; the first simplify() of a maybe_ok Candidate returns true
\* from Ok and false from Err and leaves Err either way.
C4_ShrinksToPreferredCase ==
    FirstSimplifyOfUnshrinkable =>
        LET preferred == IF un.variant \in {"maybe_err", "maybe_err_weighted"}
                         THEN "Ok" ELSE "Err"
        IN  /\ UnValue[1] = preferred
            /\ un.lastRet <=> un.first[1] # preferred

\* A maybe_err Candidate drawn as Err was simplified once.
C4_Witness ==
    /\ FirstSimplifyOfUnshrinkable
    /\ un.variant = "maybe_err"
    /\ un.first[1] = "Err"
    /\ un.lastRet
    /\ UnValue[1] = "Ok"

PairFailureReported ==
    /\ run.phase = "run"
    /\ flat.mode = "pair"
    /\ run.pc = "done"
    /\ run.result = "fail"

SimplifyChainEnded ==
    \/ filt.phase = "error"
    \/ filt.phase = "value" /\ filt.lastOp = "simplify" /\ ~filt.lastRet
    \/ flat.phase = "value" /\ flat.lastOp = "simplify" /\ ~flat.lastRet

\* C6: simplify() called again and again on a Filter or a Flatten Candidate,
\* with no complicate() in between, comes to return false.
C6_SimplifyChainsEnd == <>SimplifyChainEnded

\* A chain of simplify() calls on a Flatten Candidate that ended after
\* simplifying the meta Candidate.
C6_Witness ==
    /\ flat.phase = "value"
    /\ flat.lastOp = "simplify"
    /\ ~flat.lastRet
    /\ flat.st.lv[Top].final_complication # <<>>
    /\ flat.st.base.curr < flat.origBase

\* The inner Candidate that the outermost FlattenValueTree exposes.
FlatInner == flat.st.lv[Top].current

FlatComplicated ==
    /\ run.phase = "idle"
    /\ flat.phase = "value"
    /\ flat.lastOp = "complicate"

FilterComplicated ==
    /\ filt.phase = "value"
    /\ filt.lastOp = "complicate"

C9_NewValueBounded ==
    filt.phase \in {"value", "error", "panic"} =>
      /\ filt.draws <= MaxLocalRejects + 1
      /\ filt.rejects <= MaxLocalRejects
      /\ filt.phase = "value" =>
            /\ fun(filt.pred, filt.orig)
            /\ filt.err = "none"
            /\ filt.rejects = filt.draws - 1
      /\ filt.phase = "error" =>
            \/ /\ filt.err = "source"
               /\ filt.mayFail
               /\ filt.rejects = filt.draws - 1
            \/ /\ filt.err = "too many local rejects"
               /\ filt.rejects = MaxLocalRejects
               /\ filt.draws = MaxLocalRejects + 1
               /\ ~fun(filt.pred, Filter_current(filt))

\* new_value gave up after spending the whole local reject budget on a
\* predicate that accepts some value of the source.
C9_Witness ==
    /\ filt.phase = "error"
    /\ filt.err = "too many local rejects"
    /\ filt.pred # {}

\* C10: the failure run_one reports is the value of the last call of the
\* test that returned Fail; for the pair flat-map it is a value the test
\* fails on.
C10_ReportsLastFailure ==
    (run.phase = "run" /\ run.pc = "done" /\ run.result = "fail") =>
        /\ run.reported = run.failed
        /\ flat.mode = "pair" => TestFn("pair", run.reported, TRUE) = "fail"

\* run_one reported a failure simpler than the first one after a search
\* that tested regeneration redraws.
C10_Witness ==
    /\ run.phase = "run"
    /\ run.pc = "done"
    /\ run.result = "fail"
    /\ flat.st.redraws > 0
    /\ run.reported # run.first

\* C11: a run enters Shrinking only from Failed, reached by a Fail outcome
\* of the predicate; a Reject outcome leads to Rejected, and from Rejected
\* the run goes back to Generating with the passes counted so far
\* unchanged and one more global reject.
C11_ShrinkOnlyAfterFail ==
    [][run.phase = "cases" =>
         /\ (run'.pc = "Shrinking" /\ run.pc # "Shrinking") =>
                (run.pc = "Failed" /\ run.outcome = "fail")
         /\ (run.pc = "Executing" /\ run'.outcome = "reject") =>
                run'.pc = "Rejected"
         /\ run.pc = "Rejected" =>
                /\ run'.pc = "Generating"
                /\ run'.passes = run.passes
                /\ run'.global_rejects = run.global_rejects + 1]_vars

\* The run is back in Generating after a Reject that followed a pass.
C11_Witness ==
    /\ run.phase = "cases"
    /\ run.pc = "Generating"
    /\ run.outcome = "reject"
    /\ run.passes = 1
    /\ run.global_rejects = 1


\* C12: for a regex that is a case-sensitive literal, the current() of
\* every generated Candidate is exactly the literal's string, simplify()
\* returns false, and generation and shrinking reach that one value only.
C12_LiteralSingleValue ==
    (/\ rx.phase = "regex"
     /\ Expr_parse(rx.pattern).kind = "Literal"
     /\ ~Expr_parse(rx.pattern).casei) =>
        /\ rx.pc # "panic"
        /\ rx.op # "none" => rx.s = Expr_parse(rx.pattern).chars
        /\ rx.op = "simplify" => ~rx.ret
        /\ rx.op # "none" => rx.generated = {Expr_parse(rx.pattern).chars}

C12_Witness ==
    /\ rx.phase = "regex"
    /\ rx.pattern = "ab"
    /\ rx.op = "simplify"
    /\ ~rx.ret
    /\ rx.s = <<97, 98>>
    /\ rx.generated = {<<97, 98>>}

\* C13: every value a Candidate of string_regex(pattern) exposes, the one
\* first generated and the one after each simplify() that returned true,
\* matches the whole pattern: the match starts at 0 and ends at the
\* string's length.
C13_ExposedValuesMatch ==
    (rx.phase = "regex" /\ rx.op # "none" /\ rx.ret) =>
        do_test_ok(Expr_parse(rx.pattern), rx.s)

\* The draws below the total weight on which new_value picks the Ok branch.
OkRolls ==
    {roll \in 0 .. (TupleUnion_weight(UnBranches, Len(UnBranches)) - 1) :
       UnBranches[TupleUnion_pick(UnBranches, roll) + 1].fn = "WrapOk"}

\* The probability of Ok the strategy was asked for, in tenths.
OkTenths ==
    IF un.variant \in {"maybe_ok", "maybe_err"} THEN 5
    ELSE IF un.variant = "maybe_ok_weighted" THEN un.p
    ELSE 10 - un.p

\* The number of Ok values expected among the draws of count_ok_of_1000.
ExpectedOk ==
    (Draws * Cardinality(OkRolls))
        \div TupleUnion_weight(UnBranches, Len(UnBranches))

\* C14: maybe_ok and maybe_err pick Ok with probability 0.5,
\* maybe_ok_weighted(p, t, e) picks Ok and maybe_err_weighted(p, t, e) picks
\* Err with probability p, up to the rounding of the weights, so that the
\* number of Ok values expected in 1000 draws lies between 450 and 550 for
\* the defaults, between 800 and 950 when Ok has probability 0.9 and between
\* 50 and 150 when it has probability 0.1.
C14_OkProbability ==
    un.phase # "idle" =>
        LET total == TupleUnion_weight(UnBranches, Len(UnBranches))
            off == Cardinality(OkRolls) * 10 - OkTenths * total
        IN  /\ 2 * off <= 10 /\ 2 * off >= -10
            /\ un.lastOp = "new_value" =>
                  (UnValue[1] = "Ok" <=> un.roll \in OkRolls)
            /\ un.variant \in {"maybe_ok", "maybe_err"} =>
                  (450 < ExpectedOk /\ ExpectedOk < 550)
            /\ OkTenths = 9 => (800 < ExpectedOk /\ ExpectedOk < 950)
            /\ OkTenths = 1 => (50 < ExpectedOk /\ ExpectedOk < 150)

\* maybe_err_weighted(0.1, ..) drew an Ok value, which nine draws in ten do.
C14_Witness ==
    /\ un.phase = "value"
    /\ un.variant = "maybe_err_weighted"
    /\ un.p = 1
    /\ un.lastOp = "new_value"
    /\ UnValue[1] = "Ok"
    /\ un.roll \in OkRolls
    /\ ExpectedOk > 800

\* The inner Candidate of the freely driven flat-map was drawn from the
\* strategy the meta Candidate's current value denotes.
FlatCoherent == FlatInner.from = flat.st.base.curr

\* C15 as stated: in every reachable state of a Flatten Candidate the
\* current inner Candidate was drawn from the Blueprint denoted by the meta
\* Candidate's current value.
C15_InnerAlwaysFromMeta ==
    (run.phase = "idle" /\ flat.phase = "value") => FlatCoherent

\* C15, amended: after new_value and after every call the current inner
\* Candidate was drawn from the Blueprint of the meta Candidate's current
\* value, unless the call restored the final complication, or failed to
\* redraw after it had moved the meta Candidate, or found the two already
\* apart and redrew nothing.
C15_InnerFromMetaUnlessRestored ==
    [][(run.phase = "idle" /\ flat'.phase = "value") =>
          \/ FlatCoherent'
          \/ flat'.how \in {"restore", "error"}
          \/ /\ flat.phase = "value"
             /\ ~FlatCoherent
             /\ flat'.how \in {"inner", "none"}]_vars

\* A meta-level simplify() has redrawn the inner Candidate from the new meta
\* value and kept the one drawn from the old value as final complication.
C15_Witness ==
    /\ run.phase = "idle"
    /\ flat.phase = "value"
    /\ flat.lastOp = "simplify"
    /\ flat.how = "meta"
    /\ FlatCoherent
    /\ flat.st.lv[Top].final_complication # <<>>
    /\ flat.st.lv[Top].final_complication[1].from # flat.st.base.curr

\* C16: simplify() of a Flatten Candidate returns false exactly when neither
\* the inner nor the meta Candidate can simplify; it never returns false
\* after it has simplified the meta Candidate.
C16_FalseIffNothingSimplifies ==
    [][(run.phase = "idle" /\ flat.phase = "value"
        /\ flat'.lastOp = "simplify") =>
          /\ ~flat'.lastRet <=>
                (/\ ~BinarySearch_simplify(FlatInner.t).ret
                 /\ ~BinarySearch_simplify(flat.st.base).ret)
          /\ ~flat'.lastRet => flat'.st.base.curr = flat.st.base.curr]_vars

\* A simplify() call was made on the freely driven flat-map.
FlatSimplifyCall ==
    run.phase = "idle" /\ flat.phase = "value" /\ flat'.lastOp = "simplify"

\* C17: simplify() touches the meta Candidate only when the inner
\* Candidate's simplify() returned false; when the meta simplify() and the
\* redraw succeed, current is a fresh draw from the new meta value,
\* final_complication is the inner Candidate that was current before the
\* call, complicate_regen_remaining is cases, and the call returns true.
C17_MetaSimplifiedAfterInner ==
    [][FlatSimplifyCall =>
          LET inner == BinarySearch_simplify(FlatInner.t)
              meta  == BinarySearch_simplify(flat.st.base)
              level == flat'.st.lv[Top]
          IN  /\ inner.ret =>
                    /\ flat'.st.base = flat.st.base
                    /\ flat'.lastRet
                    /\ level.current = [FlatInner EXCEPT !.t = inner.t]
              /\ (~inner.ret /\ meta.ret /\ flat'.how # "error") =>
                    /\ flat'.lastRet
                    /\ flat'.st.base = meta.t
                    /\ level.current
                          \in Strategy_new_value(flat.mode, meta.t.curr)
                    /\ level.final_complication
                          = <<[FlatInner EXCEPT !.t = inner.t]>>
                    /\ level.final_complication[1].t.curr = FlatInner.t.curr
                    /\ level.complicate_regen_remaining = Cases]_vars

\* A meta-level simplify() has moved the meta Candidate down, redrawn, kept
\* the old inner Candidate and armed the regeneration counter.
C17_Witness ==
    /\ run.phase = "idle"
    /\ flat.phase = "value"
    /\ flat.lastOp = "simplify"
    /\ flat.lastRet
    /\ flat.how = "meta"
    /\ flat.st.base.curr < flat.origBase
    /\ flat.st.lv[Top].complicate_regen_remaining = Cases
    /\ flat.st.lv[Top].final_complication # <<>>
    /\ flat.st.lv[Top].current.from = flat.st.base.curr

\* A complicate() call was made on the freely driven flat-map.
FlatComplicateCall ==
    run.phase = "idle" /\ flat.phase = "value" /\ flat'.lastOp = "complicate"

\* C18: complicate() regenerates only when complicate_regen_remaining is
\* positive and the run's regeneration budget is not used up; a regeneration
\* takes one from complicate_regen_remaining and one unit of the budget,
\* replaces the current inner Candidate by a fresh draw from the unchanged
\* meta value, leaves the meta Candidate and the final complication alone,
\* and returns true.
C18_RegenerationStep ==
    [][FlatComplicateCall =>
          LET old == flat.st.lv[Top]
              new == flat'.st.lv[Top]
          IN  /\ flat'.how = "regen" <=> flat'.st.redraws # flat.st.redraws
              /\ flat'.how = "regen" =>
                    /\ old.complicate_regen_remaining > 0
                    /\ flat.st.regens < Config_max_flat_map_regens(flat.mode)
                    /\ new.complicate_regen_remaining
                          = old.complicate_regen_remaining - 1
                    /\ flat'.st.regens = flat.st.regens + 1
                    /\ flat'.st.redraws = flat.st.redraws + 1
                    /\ new.current
                          \in Strategy_new_value(flat.mode, flat.st.base.curr)
                    /\ flat'.st.base = flat.st.base
                    /\ new.final_complication = old.final_complication
                    /\ flat'.lastRet]_vars

\* A complicate() call has regenerated the inner Candidate.
C18_Witness ==
    /\ run.phase = "idle"
    /\ flat.phase = "value"
    /\ flat.lastOp = "complicate"
    /\ flat.lastRet
    /\ flat.how = "regen"
    /\ flat.st.regens = 1
    /\ flat.st.redraws = 1
    /\ flat.st.lv[Top].complicate_regen_remaining = Cases - 1
    /\ flat.st.lv[Top].final_complication # <<>>

\* C19: a complicate() that does not regenerate tries, in this order, the
\* inner Candidate's complicate(), the meta Candidate's complicate() with a
\* redraw and complicate_regen_remaining set to cases, and the restoration
\* of the saved final complication, which empties the slot; it returns
\* false only when none of the three is to be had, and a saved final
\* complication is restored at most once.
C19_StructuralOrder ==
    [][(FlatComplicateCall /\ flat'.how # "regen") =>
          LET old   == flat.st.lv[Top]
              new   == flat'.st.lv[Top]
              inner == BinarySearch_complicate(FlatInner.t)
              meta  == BinarySearch_complicate(flat.st.base)
          IN  /\ inner.ret =>
                    /\ flat'.how = "inner"
                    /\ flat'.lastRet
                    /\ new.current = [FlatInner EXCEPT !.t = inner.t]
                    /\ flat'.st.base = flat.st.base
                    /\ new.final_complication = old.final_complication
              /\ flat'.how = "meta" =>
                    /\ ~inner.ret /\ meta.ret
                    /\ flat'.lastRet
                    /\ flat'.st.base = meta.t
                    /\ new.current
                          \in Strategy_new_value(flat.mode, meta.t.curr)
                    /\ new.complicate_regen_remaining = Cases
                    /\ new.final_complication = old.final_complication
              /\ (~inner.ret /\ meta.ret) => flat'.how \in {"meta", "restore", "error"}
              /\ flat'.how = "restore" =>
                    /\ ~inner.ret
                    /\ old.final_complication # <<>>
                    /\ flat'.lastRet
                    /\ new.current.from = old.final_complication[1].from
                    /\ new.current = old.final_complication[1]
                    /\ new.final_complication = <<>>
              /\ (~inner.ret /\ ~meta.ret /\ old.final_complication # <<>>) =>
                    flat'.how = "restore"
              /\ ~flat'.lastRet <=>
                    /\ ~inner.ret
                    /\ ~meta.ret \/ flat'.how = "error"
                    /\ old.final_complication = <<>>]_vars

\* The final complication has been restored and its slot is empty.
C19_Witness ==
    /\ run.phase = "idle"
    /\ flat.phase = "value"
    /\ flat.lastOp = "complicate"
    /\ flat.lastRet
    /\ flat.how = "restore"
    /\ flat.st.lv[Top].final_complication = <<>>
    /\ flat.st.lv[Top].complicate_regen_remaining = 0

\* C20: a complicate() that has regenerations left and finds the run's
\* regeneration budget used up sets complicate_regen_remaining to 0, redraws
\* nothing for a regeneration, charges nothing, fails in no way, and goes on
\* with the structural steps in the same call.
C20_ExhaustedBudgetIsNoError ==
    [][(/\ FlatComplicateCall
        /\ flat.st.lv[Top].complicate_regen_remaining > 0
        /\ flat.st.regens >= Config_max_flat_map_regens(flat.mode)) =>
          /\ flat'.exhausted
          /\ flat'.how # "regen"
          /\ flat'.st.redraws = flat.st.redraws
          /\ flat'.st.regens = flat.st.regens
          /\ [st |-> flat'.st, ret |-> flat'.lastRet, how |-> flat'.how]
                \in Flatten_complicate_structural(flat.mode, Top,
                       [flat.st EXCEPT
                          !.lv[Top].complicate_regen_remaining = 0])
          /\ flat'.st.lv[Top].complicate_regen_remaining
                = IF flat'.how = "meta" THEN Cases ELSE 0]_vars

\* A complicate() found the budget used up, with regenerations left, and
\* went on to restore the final complication.
C20_Witness ==
    /\ run.phase = "idle"
    /\ flat.phase = "value"
    /\ flat.lastOp = "complicate"
    /\ flat.exhausted
    /\ flat.st.regens = MaxFlatMapRegens
    /\ flat.lastRet
    /\ flat.how = "restore"
    /\ flat.st.lv[Top].complicate_regen_remaining = 0

\* The last call was a simplify() that chose no new strategy: the inner
\* Candidate simplified in place, or the call returned false.
SimplifyKeptStrategy ==
    /\ flat.phase = "value"
    /\ flat.lastOp = "simplify"
    /\ flat.how = "inner" \/ ~flat.lastRet

\* C21: a simplify() that chooses no new strategy leaves
\* complicate_regen_remaining at 0, and the complicate() that follows it
\* redraws nothing for a regeneration: it charges nothing to the run's
\* budget and takes the structural steps.
C21_NoRegenAfterPlainSimplify ==
    [][/\ (FlatSimplifyCall /\ SimplifyKeptStrategy') =>
             flat'.st.lv[Top].complicate_regen_remaining = 0
       /\ (FlatComplicateCall /\ SimplifyKeptStrategy) =>
             /\ flat'.how # "regen"
             /\ flat'.st.redraws = flat.st.redraws
             /\ flat'.st.regens = flat.st.regens
             /\ [st |-> flat'.st, ret |-> flat'.lastRet, how |-> flat'.how]
                   \in Flatten_complicate_structural(flat.mode, Top, flat.st)]_vars

\* The inner Candidate simplified in place after a strategy had been chosen
\* anew and while the run still had budget for regenerations.
C21_Witness ==
    /\ run.phase = "idle"
    /\ SimplifyKeptStrategy
    /\ flat.how = "inner"
    /\ flat.st.lv[Top].final_complication # <<>>
    /\ flat.st.regens < Config_max_flat_map_regens(flat.mode)
    /\ flat.st.lv[Top].complicate_regen_remaining = 0

\* The source Candidate after the given calls were made on it, in order.
RECURSIVE SourceAfter(_, _)
SourceAfter(t, calls) ==
    IF calls = <<>>
    THEN t
    ELSE SourceAfter(IF Head(calls) = "simplify"
                     THEN BinarySearch_simplify(t).t
                     ELSE BinarySearch_complicate(t).t,
                     Tail(calls))

\* What the source answers to the operation the Filter was asked for.
SourceAnswer ==
    IF filt'.lastOp = "simplify"
    THEN BinarySearch_simplify(filt.source)
    ELSE BinarySearch_complicate(filt.source)

\* C22: simplify() and complicate() of a Filter call the source's operation
\* of the same name exactly once; when it returns false they return false
\* and call the source no more; when it returns true every further call is
\* the source's complicate(), made only while the value fails the
\* predicate, and a call that returns returns true with the predicate
\* holding.
C22_OneCallThenRepairByComplicate ==
    [][(filt.phase = "value" /\ filt'.lastOp \in {"simplify", "complicate"}) =>
          /\ Len(filt'.calls) >= 1
          /\ filt'.calls[1] = filt'.lastOp
          /\ \A i \in 2 .. Len(filt'.calls) : filt'.calls[i] = "complicate"
          /\ filt'.source = SourceAfter(filt.source, filt'.calls)
          /\ ~SourceAnswer.ret =>
                /\ filt'.calls = <<filt'.lastOp>>
                /\ filt'.phase = "value"
                /\ ~filt'.lastRet
          /\ SourceAnswer.ret =>
                /\ \A i \in 1 .. (Len(filt'.calls) - 1) :
                      ~fun(filt.pred,
                           SourceAfter(filt.source,
                                       SubSeq(filt'.calls, 1, i)).curr)
                /\ filt'.phase = "value" =>
                      /\ filt'.lastRet
                      /\ fun(filt.pred, Filter_current(filt'))]_vars

\* A simplify() whose repair took two complicate() calls of the source.
C22_Witness ==
    /\ filt.phase = "value"
    /\ filt.lastOp = "simplify"
    /\ filt.lastRet
    /\ filt.calls = <<"simplify", "complicate", "complicate">>

\* C23: a Filter operation never returns with a current value the
\* predicate refuses; when the source's complicate() returns false during a
\* repair while the value still fails the predicate, the Filter panics, and
\* a Filter that panicked takes no further step.
C23_RepairFailureIsFatal ==
    /\ filt.phase = "value" =>
          /\ fun(filt.pred, FilterFlatten_current(filt.source))
          /\ filt.refused = <<>>
    /\ filt.phase = "panic" =>
          /\ filt.refused # <<>>
          /\ ~fun(filt.pred, FilterFlatten_current(filt.refused[1]))
          /\ ~fun(filt.pred, FilterFlatten_current(filt.source))
          /\ \E c \in FlattenValueTree_complicate("fallible", 1, filt.refused[1]) :
                ~c.ret /\ c.st = filt.source
          /\ ~ENABLED NextFiltered

\* A repair ended with the source refusing to complicate.
C23_Witness ==
    /\ filt.phase = "panic"
    /\ filt.lastOp \in {"simplify", "complicate"}
    /\ filt.refused # <<>>

\* A simplify() call, or a complicate() call, was made on the union
\* Candidate.
ResultSimplifyCall == un.phase = "value" /\ un'.lastOp = "simplify"

ResultComplicateCall == un.phase = "value" /\ un'.lastOp = "complicate"

\* The last call was a simplify() that switched branches: it returned true
\* and left a fallback.
JustSwitched ==
    /\ un.phase = "value"
    /\ un.lastOp = "simplify"
    /\ un.lastRet
    /\ un.tree.fallback # <<>>

\* C24: simplify() on a union Candidate of a branch other than 0 switches
\* to a Candidate of branch 0, returns true and keeps the Candidate it had
\* as fallback; a complicate() made right after the switch returns true
\* and puts back that branch and its value; simplify() on a Candidate of
\* branch 0 delegates to that Candidate.
C24_SwitchAndRestore ==
    [][/\ (ResultSimplifyCall /\ un.tree.pick # 0) =>
             /\ un'.lastRet
             /\ un'.tree.pick = 0
             /\ un'.tree.option \in Map_new_value(UnBranches[1])
             /\ un'.tree.fallback =
                   <<[pick |-> un.tree.pick, option |-> un.tree.option]>>
             /\ JustSwitched'
       /\ (ResultComplicateCall /\ JustSwitched) =>
             /\ un'.lastRet
             /\ un'.tree.pick = un.tree.fallback[1].pick
             /\ un'.tree.pick # 0
             /\ un'.tree.option = un.tree.fallback[1].option
             /\ un'.tree.fallback = <<>>
             /\ un.calls = 1 => UnValue' = un.first
       /\ (ResultSimplifyCall /\ un.tree.pick = 0) =>
             /\ un'.tree.pick = 0
             /\ un'.tree.option.fn = un.tree.option.fn
             /\ un'.tree.option.t = BinarySearch_simplify(un.tree.option.t).t
             /\ un'.lastRet = BinarySearch_simplify(un.tree.option.t).ret]_vars

\* A Candidate drawn from branch 1 over a delegate that can shrink was
\* switched to branch 0 and put back by the complicate() that followed.
C24_Witness ==
    /\ un.phase = "value"
    /\ un.calls = 2
    /\ un.lastOp = "complicate"
    /\ un.lastRet
    /\ un.tree.pick # 0
    /\ un.tree.fallback = <<>>
    /\ UnValue = un.first
    /\ UnValue[2] > 0

\* An expression with a line or text anchor, a word-boundary test or a
\* counted repetition of maximum u32::MAX somewhere in it.
RECURSIVE Unsupported(_)
Unsupported(expr) ==
    \/ expr.kind \in {"StartLine", "EndLine", "StartText", "EndText",
                      "WordBoundary", "NotWordBoundary", "WordBoundaryAscii",
                      "NotWordBoundaryAscii"}
    \/ expr.kind = "Repeat" /\ expr.r = "Range" /\ expr.max = U32_MAX
    \/ \E i \in 1 .. Len(expr.subs) : Unsupported(expr.subs[i])

\* The expression the call was made on.
CompiledExpr ==
    IF rx.api = "bytes_regex_parsed" THEN rx.expr ELSE Expr_parse(rx.text)

\* C25: bytes_regex_parsed, and string_regex and bytes_regex through it,
\* return the error UnsupportedRegex and no strategy for an expression that
\* holds an anchor, a word-boundary test or a repetition of maximum
\* u32::MAX at any depth; a text the parser refuses gets the error
\* RegexSyntax.
C25_UnsupportedIsAnError ==
    (rx.phase = "compile" /\ rx.pc = "done") =>
        /\ (rx.api # "bytes_regex_parsed" /\ rx.text \in Malformed) =>
              rx.result = RegexSyntax
        /\ (~(rx.api # "bytes_regex_parsed" /\ rx.text \in Malformed)
            /\ Unsupported(CompiledExpr)) =>
              /\ rx.result.kind = "Error"
              /\ rx.result.err \in
                   {"Cannot have repetition max of u32::MAX",
                    "line/text anchors not supported for string generation",
                    "word boundary tests not supported for string generation"}
              /\ rx.result.subs = <<>>

\* bytes_regex_parsed refused an alternation inside a repetition because of
\* a word-boundary test two levels down.
C25_Witness ==
    /\ rx.phase = "compile"
    /\ rx.pc = "done"
    /\ rx.api = "bytes_regex_parsed"
    /\ rx.expr.kind = "Repeat"
    /\ rx.expr.subs[1].kind = "Alternate"
    /\ rx.expr.subs[1].subs[2].kind = "NotWordBoundary"
    /\ rx.result.kind = "Error"

\* The numbers of repetitions a repeater stands for.
RepeatCounts(e) ==
    IF e.r = "ZeroOrOne" THEN 0 .. 1
    ELSE IF e.r = "ZeroOrMore" THEN 0 .. 32
    ELSE IF e.r = "OneOrMore" THEN 1 .. 32
    ELSE IF e.max # -1 THEN e.min .. e.max
    ELSE e.min .. (2 * e.min - 1)

\* The pattern of the test is a repetition of one char that
\* string_regex accepts.
RepeatTested ==
    /\ rx.phase = "regex"
    /\ Expr_parse(rx.pattern).kind = "Repeat"
    /\ string_regex(rx.pattern).kind # "Error"

\* C26: for a repetition, new_value can draw every number of repetitions
\* of the repeater's range and no other; every value exposed, drawn or
\* shrunk, has a number of repetitions in that range; and the distinct
\* strings of a{0,8}, a?, a*, a+ and a{4,} are at most 9, 2, 33, 32 and 4.
C26_RepeatCounts ==
    RepeatTested =>
       LET e == Expr_parse(rx.pattern)
           distinct == [p \in {"a{0,8}", "a?", "a*", "a+", "a{4,}"} |->
                          IF p = "a{0,8}" THEN 9
                          ELSE IF p = "a?" THEN 2
                          ELSE IF p = "a*" THEN 33
                          ELSE IF p = "a+" THEN 32 ELSE 4]
       IN  /\ rx.pc = "start" =>
                {Len(tree.subs) :
                   tree \in RegexGeneratorStrategy_new_value(
                                string_regex(rx.pattern))} = RepeatCounts(e)
           /\ rx.pc = "value" =>
                /\ Len(rx.tree.subs) \in RepeatCounts(e)
                /\ Len(rx.s) = Len(rx.tree.subs)
           /\ {Len(s) : s \in rx.generated} \subseteq RepeatCounts(e)
           /\ Cardinality(rx.generated) = Cardinality({Len(s) : s \in rx.generated})
           /\ rx.pattern \in DOMAIN distinct =>
                Cardinality(RepeatCounts(e)) = distinct[rx.pattern]

\* The test of a* has seen all 33 strings.
C26_Witness ==
    /\ RepeatTested
    /\ rx.pattern = "a*"
    /\ Cardinality(rx.generated) = 33
    /\ rx.pc = "value"
    /\ Len(rx.s) = 32

\* The source Candidate after complicate() was called on it until it
\* returned false.
RECURSIVE Exhausted(_)
Exhausted(t) ==
    LET c == BinarySearch_complicate(t)
    IN  IF c.ret THEN Exhausted(c.t) ELSE c.t

\* C27: the source Candidate of the Filter obeys the protocol, that is,
\* complicating it to exhaustion brings back the value it held before the
\* most recent simplify(), which the predicate accepts; and over such a
\* source no sequence of simplify() and complicate() calls on a Candidate
\* returned by new_value makes the Filter panic.
C27_PanicUnreachable ==
    /\ filt.phase # "panic"
    /\ filt.phase = "value" =>
          /\ Exhausted(filt.source).curr = filt.anchor
          /\ fun(filt.pred, filt.anchor)

\* A complicate() of the Filter had to repair, and the repair ended only
\* where the source has nothing left to undo: on the value held before the
\* most recent simplify().
C27_Witness ==
    /\ filt.phase = "value"
    /\ filt.lastOp = "complicate"
    /\ filt.lastRet
    /\ Len(filt.calls) >= 2
    /\ Filter_current(filt) = filt.anchor
    /\ ~BinarySearch_complicate(filt.source).ret

\* The bytes of the inclusive ranges of the class.
ClassBytes_bytes ==
    UNION {rx.expr.ranges[i][1] .. rx.expr.ranges[i][2] :
             i \in 1 .. Len(rx.expr.ranges)}

\* C28: every byte a ClassBytes strategy exposes lies in one of the ranges
\* of the class, and new_value can draw every byte of every range, the
\* upper bound of each range among them.
C28_EveryByteOfEveryRange ==
    rx.phase = "bytes" =>
       /\ rx.pc = "value" =>
             /\ Len(rx.bytes) = 1
             /\ rx.bytes[1] \in ClassBytes_bytes
       /\ rx.pc = "start" =>
             {RegexGeneratorValueTree_current(bytes_regex_parsed(rx.expr), tree)[1] :
                tree \in RegexGeneratorStrategy_new_value(
                             bytes_regex_parsed(rx.expr))} = ClassBytes_bytes
====
